---- MODULE Spec2Model ----
(***************************************************************************)
(* Model of the Shopify -> Odoo order import engine                        *)
(* (src/process_shopify_exports.py): the script is one sequential program; *)
(* every block between two blocking points (a prompt, a file write, the    *)
(* end of the script) is one action, pc is the position in the script.     *)
(***************************************************************************)
EXTENDS Integers, Sequences, FiniteSets, TLC

(***************************************************************************)
(* Bounds of the model.                                                    *)
(***************************************************************************)
MaxRows == 3            \* longest orders_export.csv that is explored

(***************************************************************************)
(* Values of the program.                                                  *)
(***************************************************************************)
Blank == ""             \* an empty CSV cell (NaN after read_csv, '' after fillna)
None == "None"          \* Python None
SKIP == "__SKIP__"
MISSING == "(missing)"
SKIPPED == "(skipped)"
ActUpdate == "Update SKU in Shopify"
ActSkipped == "SKIPPED - Order line will not be imported"
page_size == 10

(***************************************************************************)
(* Generic sequence helpers (pandas unique / boolean-mask selection).      *)
(***************************************************************************)
RECURSIVE Unique(_)
Unique(s) ==
    IF s = <<>> THEN <<>>
    ELSE LET r == Unique(SubSeq(s, 1, Len(s) - 1))
             l == s[Len(s)]
         IN IF \E k \in 1..Len(r) : r[k] = l THEN r ELSE Append(r, l)

Range(s) == {s[k] : k \in 1..Len(s)}

SeqsUpTo(S, n) == UNION {[1..k -> S] : k \in 0..n}

Min(a, b) == IF a < b THEN a ELSE b

(***************************************************************************)
(* Conversions.                                                            *)
(***************************************************************************)
\* float(x) on the Refunded Amount cell: the parsed number (in cents), or a
\* ValueError for text that is no number.
ParseFloat(s) ==
    CASE s = "0.00"  -> [ok |-> TRUE, val |-> 0]
      [] s = "5.00"  -> [ok |-> TRUE, val |-> 500]
      [] s = "-5.00" -> [ok |-> TRUE, val |-> 0 - 500]
      [] OTHER       -> [ok |-> FALSE, val |-> 0]

\* str.lower() on the Financial Status cell.
Lower(s) ==
    CASE s = "PAID" -> "paid"
      [] s = "Paid" -> "paid"
      [] OTHER      -> s

\* two str.replace calls on the Order Date column.
CleanDate(s) ==
    CASE s = "2025-01-02 10:00:00 -0500" -> "2025-01-02 10:00:00"
      [] s = "2025-06-02 10:00:00 -0400" -> "2025-06-02 10:00:00"
      [] OTHER -> s

\* sorted() on order names.
NameRank(n) ==
    CASE n = "" -> 0
      [] n = "A" -> 1
      [] n = "B" -> 2
      [] OTHER -> 3

RECURSIVE SortedNames(_)
SortedNames(S) ==
    IF S = {} THEN <<>>
    ELSE LET m == CHOOSE x \in S : \A y \in S : NameRank(x) <= NameRank(y)
         IN <<m>> \o SortedNames(S \ {m})

(***************************************************************************)
(* The input rows that are explored.                                       *)
(***************************************************************************)
Row(n, ref, fin, ful, bill, paid, sku, desc, qty) ==
    [name |-> n, ref |-> ref, fin |-> fin, ful |-> ful, bill |-> bill,
     paid |-> paid, sku |-> sku, desc |-> desc, qty |-> qty]

T1 == "2025-01-02 10:00:00 -0500"
T2 == "2025-06-02 10:00:00 -0400"

\* Rows that vary the header cells the order filter reads: header rows of
\* the orders A and B, a row in Shopify's continuation style (order name
\* present, the other header cells empty) and a row whose order identifier
\* cell is empty as well.
ClassifyPool ==
    { Row("A", "",     "paid",    "",   "Ann", T1, "S1", "D1", 1),
      Row("A", "5.00", "paid",    "",   "Ann", T1, "S1", "D1", 1),
      Row("A", "",     "",        "",   "",    "", "S1", "D2", 2),
      Row("B", "0.00", "pending", "",   "Bob", T2, "S1", "D1", 1),
      Row("B", "abc",  "Paid",    "T3", "Bob", T2, "S1", "D1", 1),
      Row("B", "abc",  "PAID",    "",   "Ann", T2, "",   "D1", 2),
      Row("",  "",     "",        "",   "",    "", "S1", "D1", 1) }

\* Rows of orders that pass the filter and vary the product reference and
\* the description.
ResolvePool ==
    { Row("A", "",     "paid",    "",   "Ann", T1, "S1", "D1", 1),
      Row("A", "",     "paid",    "",   "Ann", T1, "",   "D1", 1),
      Row("A", "",     "",        "",   "",    "", "U1", "D2", 2),
      Row("B", "abc",  "PAID",    "",   "Ann", T2, "",   "D1", 2),
      Row("B", "",     "paid",    "",   "Bob", T2, "U1", "D1", 1),
      Row("",  "",     "",        "",   "",    "", "",   "D2", 2),
      Row("",  "",     "",        "",   "",    "", "",   "",   1) }

\* The target system (Odoo): its sale orders, its product catalog and its
\* contacts.
Odoo(orders) ==
    [orders |-> orders, skus |-> {"S1", "S2"}, contacts |-> {"Ann"}]

\* The runs that are explored: the rows orders_export.csv is made of, the
\* target system, the queries of the target-system state that fail
\* (down) and SHOPIFY_IMPORT_AUTO_SKIP.
Scenarios ==
    [pool : {ClassifyPool}, odoo : {Odoo({}), Odoo({"A"})},
     down : {{}, {"orders"}}, auto_skip : {FALSE}]
    \cup
    [pool : {ResolvePool}, odoo : {Odoo({})},
     down : {{}, {"products"}, {"contacts"}}, auto_skip : {FALSE}]
    \cup
    [pool : {ResolvePool}, odoo : {Odoo({})},
     down : {{}}, auto_skip : {TRUE}]

\* The runs that are explored with a re-run after them.
RetryPool ==
    { Row("A", "",     "paid",    "",   "Ann", T1, "S1", "D1", 1),
      Row("A", "",     "paid",    "",   "Ann", T1, "",   "D1", 1),
      Row("A", "",     "",        "",   "",    "", "U1", "D2", 2),
      Row("B", "",     "paid",    "",   "Bob", T2, "U1", "D1", 1),
      Row("",  "",     "",        "",   "",    "", "",   "D2", 2) }

RetryScenarios ==
    [pool : {RetryPool}, odoo : {Odoo({})}, down : {{}},
     auto_skip : BOOLEAN]

\* search_odoo_products: what the catalog search returns for a search term
\* (default codes in the provider's order); '' and 'skip'/'qqq' are commands.
SearchTerms == {"zzz", "one", "many"}
SearchResult(term) ==
    CASE term = "one"  -> <<"S2">>
      [] term = "many" -> <<"S1", "S2", "S1", "S2", "S1", "S2",
                            "S1", "S2", "S1", "S2", "S1", "S2">>
      [] OTHER -> <<>>


(***************************************************************************)
(* State.                                                                  *)
(***************************************************************************)
VARIABLES
    pc,                  \* position in the script
    outcome,             \* "running", or how the process ended
    exit_code,           \* the process exit status once it ended
    odoo,                \* the target system
    down,                \* the target-system queries that fail in this run
    auto_skip,           \* SHOPIFY_IMPORT_AUTO_SKIP == '1'
    fs,                  \* the files of the working directory
    fs0,                 \* the files as they were when the run started
    df_contacts,         \* names of the contacts snapshot
    df_orders,           \* names of the sale orders snapshot
    odoo_skus,           \* catalog snapshot
    input,               \* rows read from orders_export.csv
    df_in,               \* the raw rows still kept (indices into input)
    total_orders_before,
    excluded_orders,
    excluded_reasons,
    already_imported,
    df,                  \* the normalized order lines
    sku_cache,
    sku_corrections,
    i,                   \* position of the resolution sweep in df
    lk,                  \* arguments of the running interactive_sku_lookup
    results,             \* results of the last catalog search
    current_page,
    skipped_rows,        \* the lines skip-marked by the first sweep
    pending,             \* descriptions still to offer a second chance
    still_skipped,
    skipped_order_names,
    counts,              \* the figures of the summary
    lookups,             \* descriptions looked up interactively by the sweep
    run,                 \* 1 for the first run, 2 for the re-run
    prev,                \* what the previous run left behind
    sale_orders,         \* the sale orders of the target system, with lines
    stock,               \* stock.quant of the internal locations, by product
    auto_confirm,        \* import_to_odoo.py --confirm
    current,             \* current_order, current_customer, current_lines
    groups,              \* the orders import_orders handed on, with lines
    menu                 \* run_shopify_import and the preflight script

impVars  == <<sale_orders, stock, auto_confirm, current, groups>>
envVars  == <<odoo, down, auto_skip, impVars, menu>>
snapVars == <<df_contacts, df_orders, odoo_skus>>
clsVars  == <<total_orders_before, excluded_orders, excluded_reasons,
              already_imported>>
lkVars   == <<lk, results, current_page>>
scVars   == <<skipped_rows, pending>>
finVars  == <<still_skipped, skipped_order_names, counts>>
runVars  == <<run, prev>>
vars == <<pc, outcome, exit_code, odoo, down, auto_skip, fs, fs0,
          df_contacts, df_orders, odoo_skus, input, df_in,
          total_orders_before, excluded_orders, excluded_reasons,
          already_imported, df, sku_cache, sku_corrections, i, lk, results,
          current_page, skipped_rows, pending, still_skipped,
          skipped_order_names, counts, lookups, run, prev, sale_orders,
          stock, auto_confirm, current, groups, menu>>

NoFile == [exists |-> FALSE, rows |-> <<>>]
File(rows) == [exists |-> TRUE, rows |-> rows]
NoLookup == [name |-> Blank, order |-> Blank, current_sku |-> Blank,
             caller |-> "none"]
NoCounts == [processed |-> 0, total |-> 0, skipped |-> 0, excluded |-> 0,
             already |-> 0, total_in_file |-> 0, lines |-> 0,
             announces_skipped |-> FALSE]
\* The menu has not been used: no .preflight_choice file, no preflight
\* run, nothing launched.
NoMenu == [choice_file |-> "absent", chosen |-> "none", returncode |-> 0,
           launched |-> "none"]
NoCurrent == [order |-> Blank, customer |-> Blank, lines |-> <<>>]
NoPrev == [outcome |-> "none", batch |-> {}, deferred |-> {}, cache |-> <<>>,
           input |-> <<>>]

\* The in-memory state of a freshly started process.
FreshProcess ==
    /\ pc = "load"
    /\ outcome = "running"
    /\ exit_code = 0
    /\ df_contacts = {} /\ df_orders = {} /\ odoo_skus = {}
    /\ input = <<>> /\ df_in = <<>>
    /\ total_orders_before = 0
    /\ excluded_orders = {} /\ excluded_reasons = <<>>
    /\ already_imported = {}
    /\ df = <<>>
    /\ sku_cache = <<>>
    /\ sku_corrections = <<>>
    /\ i = 1
    /\ lk = NoLookup /\ results = <<>> /\ current_page = 0
    /\ skipped_rows = <<>> /\ pending = <<>>
    /\ still_skipped = <<>> /\ skipped_order_names = <<>>
    /\ counts = NoCounts
    /\ lookups = <<>>

\* import_to_odoo.py has not been started.
ImporterIdle ==
    /\ sale_orders = <<>>
    /\ stock = <<>>
    /\ auto_confirm = FALSE
    /\ current = NoCurrent
    /\ groups = <<>>

InitFiles(f) ==
    [export |-> f, orders |-> NoFile, contacts |-> NoFile,
     corrections |-> NoFile, failed |-> NoFile]

InitFrom(scenarios) ==
    /\ FreshProcess
    /\ \E sc \in scenarios :
          /\ odoo = sc.odoo
          /\ down = sc.down
          /\ auto_skip = sc.auto_skip
          /\ \E f \in {NoFile} \cup
                      {File(r) : r \in SeqsUpTo(sc.pool, MaxRows)} :
                fs = InitFiles(f)
    /\ fs0 = fs
    /\ run = 1
    /\ prev = NoPrev
    /\ ImporterIdle
    /\ menu = NoMenu

Init == InitFrom(Scenarios)

\* sys.exit(code) / an uncaught exception: the process is gone.
Exit(how, code) ==
    /\ pc' = "exit"
    /\ outcome' = how
    /\ exit_code' = code

(***************************************************************************)
(* Loading the target-system state (lines 233-266) and the input           *)
(* (lines 268-283).                                                        *)
(***************************************************************************)
LoadOdooData ==
    /\ pc = "load"
    /\ df_contacts' = IF "contacts" \in down THEN {} ELSE odoo.contacts
    /\ df_orders' = IF "orders" \in down THEN {} ELSE odoo.orders
    /\ odoo_skus' = IF "products" \in down THEN {} ELSE odoo.skus
    /\ pc' = "read"
    /\ UNCHANGED <<outcome, exit_code, envVars, fs, fs0, input, df_in, clsVars,
                   df, sku_cache, sku_corrections, i, lkVars, scVars, finVars,
                   lookups, runVars>>

ReadInput ==
    /\ pc = "read"
    /\ fs.export.exists
    /\ input' = fs.export.rows
    /\ df_in' = [k \in 1..Len(fs.export.rows) |-> k]
    /\ pc' = "filter"
    /\ UNCHANGED <<outcome, exit_code, envVars, fs, fs0, snapVars, clsVars,
                   df, sku_cache, sku_corrections, i, lkVars, scVars, finVars,
                   lookups, runVars>>

\* Slip: the failure is handled like a failed query, the run goes on with
\* no rows.
ReadInputFails_GoesOnEmpty ==
    /\ pc = "read"
    /\ \E cause \in {"missing", "locked"} :
          (cause = "missing") <=> ~fs.export.exists
    /\ pc' = "filter"
    /\ UNCHANGED <<outcome, exit_code>>
    /\ UNCHANGED <<envVars, fs, fs0, snapVars, input, df_in, clsVars,
                   df, sku_cache, sku_corrections, i, lkVars, scVars, finVars,
                   lookups, runVars>>

\* orders_export.csv not found, or open in another program / unreadable.
ReadInputFails ==
    /\ pc = "read"
    /\ \E cause \in {"missing", "locked"} :
          (cause = "missing") <=> ~fs.export.exists
    /\ Exit("input_error", 1)
    /\ UNCHANGED <<envVars, fs, fs0, snapVars, input, df_in, clsVars,
                   df, sku_cache, sku_corrections, i, lkVars, scVars, finVars,
                   lookups, runVars>>

(***************************************************************************)
(* Order filtering (lines 286-360).                                        *)
(***************************************************************************)
NameOf(k) == input[k].name

\* df_in['Name'].fillna('').replace('', pd.NA).dropna().unique()
OrderNames(idxs) ==
    Unique(SelectSeq([k \in 1..Len(idxs) |-> NameOf(idxs[k])],
                     LAMBDA n : n # Blank))

\* df_in[df_in['Name'] == order_name].iloc[0]
FirstRow(idxs, o) ==
    input[SelectSeq(idxs, LAMBDA k : input[k].name = o)[1]]

\* lines 316-323
IsRefunded(r) ==
    /\ r.ref # Blank
    /\ ParseFloat(r.ref).ok
    /\ ParseFloat(r.ref).val > 0

\* line 327 on an empty cell: NaN has no lower(), AttributeError
StatusRaises(r) == ~IsRefunded(r) /\ r.fin = Blank

\* lines 315-337
ExclusionReason(r) ==
    IF IsRefunded(r) THEN "Refunded"
    ELSE IF Lower(r.fin) # "paid" THEN "Not paid"
    ELSE IF r.ful # Blank THEN "Already fulfilled"
    ELSE "none"

\* Series.isin on a raw cell: an empty cell (NaN) is in no set of names
IsIn(cell, S) == cell # Blank /\ cell \in S

\* df_in[~df_in['Name'].isin(S)]
DropOrders(idxs, S) == SelectSeq(idxs, LAMBDA k : ~IsIn(input[k].name, S))

FilterOrders ==
    /\ pc = "filter"
    /\ LET names == OrderNames(df_in)
           ex == {o \in Range(names) :
                     ExclusionReason(FirstRow(df_in, o)) # "none"}
       IN /\ \A o \in Range(names) : ~StatusRaises(FirstRow(df_in, o))
          /\ total_orders_before' = Len(names)
          /\ excluded_orders' = ex
          /\ excluded_reasons' =
                 [o \in ex |-> ExclusionReason(FirstRow(df_in, o))]
          /\ df_in' = DropOrders(df_in, ex)
    /\ pc' = "imported"
    /\ UNCHANGED <<outcome, exit_code, envVars, fs, fs0, snapVars, input,
                   already_imported, df, sku_cache, sku_corrections, i,
                   lkVars, scVars, finVars, lookups, runVars>>

\* The exclusion loop dies with an AttributeError that nothing catches.
FilterOrdersRaises ==
    /\ pc = "filter"
    /\ \E o \in Range(OrderNames(df_in)) : StatusRaises(FirstRow(df_in, o))
    /\ Exit("crashed", 1)
    /\ UNCHANGED <<envVars, fs, fs0, snapVars, input, df_in, clsVars,
                   df, sku_cache, sku_corrections, i, lkVars, scVars, finVars,
                   lookups, runVars>>

\* Slip: "order_name in df_orders['name']" tests the index labels of the
\* Series, not its values, so that no order is ever found.
AlreadyImported_TestsIndex(idxs, orders) == {}

\* lines 347-360
AlreadyImported(idxs, orders) ==
    IF orders # {}
    THEN {o \in Range(OrderNames(idxs)) : o \in orders}
    ELSE {}

CheckAlreadyImported ==
    /\ pc = "imported"
    /\ already_imported' = AlreadyImported(df_in, df_orders)
    /\ df_in' = DropOrders(df_in, AlreadyImported(df_in, df_orders))
    /\ pc' = "normalize"
    /\ UNCHANGED <<outcome, exit_code, envVars, fs, fs0, snapVars, input,
                   total_orders_before, excluded_orders, excluded_reasons,
                   df, sku_cache, sku_corrections, i, lkVars, scVars, finVars,
                   lookups, runVars>>

(***************************************************************************)
(* Normalization (lines 362-371).                                          *)
(***************************************************************************)
\* s.replace('', pd.NA).ffill().fillna('')
RECURSIVE FFill(_)
FFill(s) ==
    IF s = <<>> THEN <<>>
    ELSE LET p == FFill(SubSeq(s, 1, Len(s) - 1))
             l == s[Len(s)]
         IN Append(p, IF l # Blank THEN l
                      ELSE IF p = <<>> THEN Blank ELSE p[Len(p)])

Normalized(idxs) ==
    LET names == FFill([k \in 1..Len(idxs) |-> input[idxs[k]].name])
        bills == FFill([k \in 1..Len(idxs) |-> input[idxs[k]].bill])
        paids == FFill([k \in 1..Len(idxs) |-> input[idxs[k]].paid])
    IN [k \in 1..Len(idxs) |->
           [idx |-> idxs[k], Name |-> names[k], bill |-> bills[k],
            paid |-> paids[k], qty |-> input[idxs[k]].qty,
            sku |-> input[idxs[k]].sku, desc |-> input[idxs[k]].desc]]

Normalize ==
    /\ pc = "normalize"
    /\ df' = Normalized(df_in)
    /\ i' = 1
    /\ pc' = "sweep"
    /\ UNCHANGED <<outcome, exit_code, envVars, fs, fs0, snapVars, input,
                   df_in, clsVars, sku_cache, sku_corrections, lkVars, scVars,
                   finVars, lookups, runVars>>

(***************************************************************************)
(* SKU resolution sweep (lines 373-424).                                   *)
(***************************************************************************)
\* Slip: a skip decision is not remembered.
CachePut_ForgetsSkip(cache, name, value) ==
    IF value = None THEN cache
    ELSE [d \in DOMAIN cache \cup {name} |->
             IF d = name THEN value ELSE cache[d]]

\* not sku or sku not in odoo_skus
NeedsFix(sku) == sku = Blank \/ sku \notin odoo_skus

\* sku_cache[name] = value
CachePut(cache, name, value) ==
    [d \in DOMAIN cache \cup {name} |-> IF d = name THEN value ELSE cache[d]]

\* Slip: the record does not keep the reference the line came with.
Correction_DropsOriginal(order, name, sku, corrected) ==
    [Order |-> order, Product |-> name, ShopifySku |-> MISSING,
     Corrected |-> corrected, Action |-> ActUpdate]

Correction(order, name, sku, corrected) ==
    [Order |-> order, Product |-> name,
     ShopifySku |-> IF sku # Blank THEN sku ELSE MISSING,
     Corrected |-> corrected, Action |-> ActUpdate]

SkipCorrection(order, name, sku) ==
    [Order |-> order, Product |-> name,
     ShopifySku |-> IF sku # Blank THEN sku ELSE MISSING,
     Corrected |-> SKIPPED, Action |-> ActSkipped]

\* lines 379-384: nothing to do for this row
SweepContinue ==
    /\ pc = "sweep"
    /\ i <= Len(df)
    /\ df[i].desc = Blank \/ ~NeedsFix(df[i].sku)
    /\ i' = i + 1
    /\ UNCHANGED <<pc, outcome, exit_code, envVars, fs, fs0, snapVars, input,
                   df_in, clsVars, df, sku_cache, sku_corrections, lkVars,
                   scVars, finVars, lookups, runVars>>

\* lines 386-408: the description is in the cache
CacheHitLog(log, line, cached) ==
    IF cached # None
    THEN Append(log, Correction(line.Name, line.desc, line.sku, cached))
    ELSE Append(log, SkipCorrection(line.Name, line.desc, line.sku))

SweepCacheHit ==
    /\ pc = "sweep"
    /\ i <= Len(df)
    /\ df[i].desc # Blank /\ NeedsFix(df[i].sku)
    /\ df[i].desc \in DOMAIN sku_cache
    /\ LET cached == sku_cache[df[i].desc]
       IN /\ df' = [df EXCEPT ![i].sku = IF cached # None THEN cached ELSE SKIP]
          /\ sku_corrections' = CacheHitLog(sku_corrections, df[i], cached)
    /\ i' = i + 1
    /\ UNCHANGED <<pc, outcome, exit_code, envVars, fs, fs0, snapVars, input,
                   df_in, clsVars, sku_cache, lkVars, scVars, finVars,
                   lookups, runVars>>

\* lines 409-424 with lines 106-112: auto-skip mode, no prompt
SweepAutoSkip ==
    /\ pc = "sweep"
    /\ i <= Len(df)
    /\ df[i].desc # Blank /\ NeedsFix(df[i].sku)
    /\ df[i].desc \notin DOMAIN sku_cache
    /\ auto_skip
    /\ sku_cache' = CachePut(sku_cache, df[i].desc, None)
    /\ sku_corrections' =
           Append(sku_corrections,
                  SkipCorrection(df[i].Name, df[i].desc, df[i].sku))
    /\ df' = [df EXCEPT ![i].sku = SKIP]
    /\ i' = i + 1
    /\ UNCHANGED <<pc, outcome, exit_code, envVars, fs, fs0, snapVars, input,
                   df_in, clsVars, lkVars, scVars, finVars, lookups, runVars>>

\* line 411 with lines 114-125: the lookup starts and waits at the search
\* prompt
SweepLookup ==
    /\ pc = "sweep"
    /\ i <= Len(df)
    /\ df[i].desc # Blank /\ NeedsFix(df[i].sku)
    /\ df[i].desc \notin DOMAIN sku_cache
    /\ ~auto_skip
    /\ lk' = [name |-> df[i].desc, order |-> df[i].Name,
              current_sku |-> df[i].sku, caller |-> "sweep"]
    /\ lookups' = Append(lookups, df[i].desc)
    /\ pc' = "search"
    /\ UNCHANGED <<outcome, exit_code, envVars, fs, fs0, snapVars, input,
                   df_in, clsVars, df, sku_cache, sku_corrections, i, results,
                   current_page, scVars, finVars, runVars>>

\* lines['Name'] and lines['Lineitem name']
NamesOf(lines) == [k \in 1..Len(lines) |-> lines[k].Name]
DescsOf(lines) == [k \in 1..Len(lines) |-> lines[k].desc]

\* df[df['Lineitem sku'] == '__SKIP__']
SkipMarked(lines) == SelectSeq(lines, LAMBDA l : l.sku = SKIP)

\* lines 426-436: the sweep is over
SweepEnd ==
    /\ pc = "sweep"
    /\ i > Len(df)
    /\ skipped_rows' = SkipMarked(df)
    /\ IF Len(SkipMarked(df)) > 0 /\ ~auto_skip
       THEN /\ pending' = Unique(DescsOf(SkipMarked(df)))
            /\ pc' = "second"
       ELSE /\ pending' = <<>>
            /\ pc' = "final"
    /\ UNCHANGED <<outcome, exit_code, envVars, fs, fs0, snapVars, input,
                   df_in, clsVars, df, sku_cache, sku_corrections, i, lkVars,
                   finVars, lookups, runVars>>

(***************************************************************************)
(* interactive_sku_lookup (lines 103-231) and what its caller does with    *)
(* the value it returns (lines 412-424 and 451-455).                       *)
(***************************************************************************)
\* Slip: the correction is applied to the sample row only.
ApplyToSkipped_SampleOnly(lines, product, corrected) ==
    [k \in 1..Len(lines) |->
        IF /\ lines[k].desc = product /\ lines[k].sku = SKIP
           /\ \A j \in 1..(k - 1) :
                 ~(lines[j].desc = product /\ lines[j].sku = SKIP)
        THEN [lines[k] EXCEPT !.sku = corrected]
        ELSE lines[k]]

\* df.loc[mask, 'Lineitem sku'] = corrected_sku   (lines 453-454)
ApplyToSkipped(lines, product, corrected) ==
    [k \in 1..Len(lines) |->
        IF lines[k].desc = product /\ lines[k].sku = SKIP
        THEN [lines[k] EXCEPT !.sku = corrected]
        ELSE lines[k]]

LookupReturns(value, cache2, log2) ==
    /\ sku_cache' = cache2
    /\ IF lk.caller \in {"sweep", "sync"}
       THEN /\ IF value # None
               THEN /\ df' = [df EXCEPT ![i].sku = value]
                    /\ sku_corrections' = log2
               ELSE /\ df' = [df EXCEPT ![i].sku = SKIP]
                    /\ sku_corrections' =
                           Append(log2, SkipCorrection(df[i].Name, df[i].desc,
                                                       df[i].sku))
            /\ i' = i + 1
            /\ pc' = IF lk.caller = "sweep" THEN "sweep" ELSE "sync_sweep"
            /\ UNCHANGED pending
       ELSE /\ df' = IF value # None
                     THEN ApplyToSkipped(df, lk.name, value)
                     ELSE df
            /\ sku_corrections' = log2
            /\ pending' = Tail(pending)
            /\ pc' = "second"
            /\ UNCHANGED i
    /\ lk' = NoLookup
    /\ results' = <<>>
    /\ current_page' = 0
    /\ UNCHANGED <<outcome, exit_code, fs>>

\* Slip: the abort handler saves the corrections made so far.
UserAbort_SavesCorrections ==
    /\ pc' = "exit"
    /\ outcome' = "aborted"
    /\ exit_code' = 1
    /\ fs' = [fs EXCEPT !.corrections = File(sku_corrections)]
    /\ UNCHANGED <<df, sku_cache, sku_corrections, i, lkVars, pending>>

\* raise UserAbortException, caught at lines 677-683
UserAbort ==
    /\ Exit("aborted", 1)
    /\ UNCHANGED <<fs, df, sku_cache, sku_corrections, i, lkVars, pending>>

\* Slip: an input that is not understood is remembered as a skip.
PromptAgain_CachesSkip ==
    /\ sku_cache' = CachePut(sku_cache, lk.name, None)
    /\ UNCHANGED <<fs, pc, outcome, exit_code, df, sku_corrections, i,
                   lkVars, pending>>

\* 'continue' of the search loop (lines 136-138, 142-144) and the messages
\* for an unusable answer to the selection prompt (lines 225-231): the
\* prompt is shown again
PromptAgain ==
    UNCHANGED <<fs, pc, outcome, exit_code, df, sku_cache, sku_corrections,
                i, lkVars, pending>>

SearchInputs == {"skip", "qqq", Blank} \cup SearchTerms

\* lines 125-148: one answer to the search prompt
SearchPrompt ==
    /\ pc = "search"
    /\ \E search \in SearchInputs :
          CASE search = "skip" ->
                  LookupReturns(None, CachePut(sku_cache, lk.name, None),
                                sku_corrections)
            [] search = "qqq" -> UserAbort
            [] search = Blank -> PromptAgain
            [] OTHER ->
                  IF SearchResult(search) = <<>>
                  THEN PromptAgain
                  ELSE /\ results' = SearchResult(search)
                       /\ current_page' = 0
                       /\ pc' = "select"
                       /\ UNCHANGED <<fs, outcome, exit_code, df, sku_cache,
                                      sku_corrections, i, lk, pending>>
    /\ UNCHANGED <<envVars, fs0, snapVars, input, df_in, clsVars,
                   skipped_rows, finVars, lookups, runVars>>

Commands == {"qqq", "s", "r", "f", "b", "x"}
Digits == 0..(Len(SearchResult("many")) + 1)

\* Slip: the end of the page is computed from the start of the page.
page_end_FromPageStart == Min(current_page * page_size, Len(results))

page_end == Min((current_page + 1) * page_size, Len(results))

\* lines 206-229: a number was typed
AcceptsIndex(idx) == 0 <= idx /\ idx < Len(results)

\* lines 150-231: one answer to the selection prompt
SelectPrompt ==
    /\ pc = "select"
    /\ \/ \E choice \in Commands :
             CASE choice = "qqq" -> UserAbort
               [] choice = "s" ->
                     LookupReturns(None, CachePut(sku_cache, lk.name, None),
                                   sku_corrections)
               [] choice = "r" ->
                     /\ pc' = "search"
                     /\ results' = <<>>
                     /\ current_page' = 0
                     /\ UNCHANGED <<fs, outcome, exit_code, df, sku_cache,
                                    sku_corrections, i, lk, pending>>
               [] choice = "f" ->
                     /\ current_page' = IF page_end < Len(results)
                                        THEN current_page + 1
                                        ELSE current_page
                     /\ UNCHANGED <<fs, pc, outcome, exit_code, df, sku_cache,
                                    sku_corrections, i, lk, results, pending>>
               [] choice = "b" ->
                     /\ current_page' = IF current_page > 0
                                        THEN current_page - 1
                                        ELSE current_page
                     /\ UNCHANGED <<fs, pc, outcome, exit_code, df, sku_cache,
                                    sku_corrections, i, lk, results, pending>>
               [] OTHER -> PromptAgain
       \/ \E number \in Digits :
             IF AcceptsIndex(number - 1)
             THEN LookupReturns(
                      results[number],
                      CachePut(sku_cache, lk.name, results[number]),
                      Append(sku_corrections,
                             Correction(lk.order, lk.name, lk.current_sku,
                                        results[number])))
             ELSE PromptAgain
    /\ UNCHANGED <<envVars, fs0, snapVars, input, df_in, clsVars,
                   skipped_rows, finVars, lookups, runVars>>

(***************************************************************************)
(* Second-chance pass (lines 438-455).                                     *)
(***************************************************************************)
\* skipped_rows[skipped_rows['Lineitem name'] == product_name].iloc[0]
SampleRow(product) ==
    SelectSeq(skipped_rows, LAMBDA l : l.desc = product)[1]

SecondChancePrompt ==
    /\ pc = "second"
    /\ pending # <<>>
    /\ \E retry \in {"r", Blank} :
          IF retry = "r"
          THEN /\ lk' = [name |-> pending[1],
                         order |-> SampleRow(pending[1]).Name,
                         current_sku |->
                             IF SampleRow(pending[1]).sku # SKIP
                             THEN SampleRow(pending[1]).sku ELSE Blank,
                         caller |-> "second"]
               /\ pc' = "search"
               /\ UNCHANGED pending
          ELSE /\ pending' = Tail(pending)
               /\ UNCHANGED <<pc, lk>>
    /\ UNCHANGED <<outcome, exit_code, envVars, fs, fs0, snapVars, input,
                   df_in, clsVars, df, sku_cache, sku_corrections, i, results,
                   current_page, skipped_rows, finVars, lookups, runVars>>

SecondChanceEnd ==
    /\ pc = "second"
    /\ pending = <<>>
    /\ pc' = "final"
    /\ UNCHANGED <<outcome, exit_code, envVars, fs, fs0, snapVars, input,
                   df_in, clsVars, df, sku_cache, sku_corrections, i, lkVars,
                   scVars, finVars, lookups, runVars>>

(***************************************************************************)
(* Unresolved orders (lines 457-511).                                      *)
(***************************************************************************)
\* df_in[df_in['Name'].isin(skipped_order_names)]
FailedOrderRecords(idxs, names) ==
    SelectSeq(idxs, LAMBDA k : IsIn(input[k].name, Range(names)))

RawRows(idxs) == [k \in 1..Len(idxs) |-> input[idxs[k]]]

\* lines 457-477, an order is unresolved: orders_export.csv is rewritten
SaveFailedOrders ==
    /\ pc = "final"
    /\ Len(SkipMarked(df)) > 0
    /\ still_skipped' = SkipMarked(df)
    /\ skipped_order_names' =
           Unique(NamesOf(SkipMarked(df)))
    /\ fs' = [fs EXCEPT !.export =
                 File(RawRows(FailedOrderRecords(df_in,
                          Unique(NamesOf(SkipMarked(df))))))]
    /\ pc' = "failedtxt"
    /\ UNCHANGED <<outcome, exit_code, envVars, fs0, snapVars, input, df_in,
                   clsVars, df, sku_cache, sku_corrections, i, lkVars, scVars,
                   counts, lookups, runVars>>

\* lines 457-461 and 510-511, no order is unresolved
NothingSkipped ==
    /\ pc = "final"
    /\ Len(SkipMarked(df)) = 0
    /\ still_skipped' = <<>>
    /\ skipped_order_names' = <<>>
    /\ pc' = "counts"
    /\ UNCHANGED <<outcome, exit_code, envVars, fs, fs0, snapVars, input,
                   df_in, clsVars, df, sku_cache, sku_corrections, i, lkVars,
                   scVars, counts, lookups, runVars>>

\* lines 489-494: the items of one section
FailedItems(lines) ==
    [k \in 1..Len(lines) |-> [product |-> lines[k].desc, qty |-> lines[k].qty]]

\* Slip: a section lists the first unresolved line of its order only.
FailedSections_FirstItemOnly(names, skipped) ==
    LET sorted == SortedNames(Range(names))
    IN [k \in 1..Len(sorted) |->
           [order |-> sorted[k],
            items |-> SubSeq(FailedItems(SelectSeq(skipped,
                                 LAMBDA l : l.Name = sorted[k])), 1, 1)]]

\* lines 486-494: one section per order of skipped_order_names
FailedSections(names, skipped) ==
    LET sorted == SortedNames(Range(names))
    IN [k \in 1..Len(sorted) |->
           [order |-> sorted[k],
            items |-> FailedItems(SelectSeq(skipped,
                                            LAMBDA l : l.Name = sorted[k]))]]

\* Slip: only the skip-marked lines are removed, the other lines of their
\* orders stay.
RemoveFailed_LinesOnly(lines, names) ==
    SelectSeq(lines, LAMBDA l : l.sku # SKIP)

\* df[~df['Name'].isin(skipped_order_names)] then df[sku != '__SKIP__']
RemoveFailed(lines, names) ==
    SelectSeq(lines, LAMBDA l : l.Name \notin Range(names) /\ l.sku # SKIP)

\* lines 479-511
WriteFailedTxt ==
    /\ pc = "failedtxt"
    /\ fs' = [fs EXCEPT !.failed =
                 File(FailedSections(skipped_order_names, still_skipped))]
    /\ df' = RemoveFailed(df, skipped_order_names)
    /\ pc' = "counts"
    /\ UNCHANGED <<outcome, exit_code, envVars, fs0, snapVars, input, df_in,
                   clsVars, sku_cache, sku_corrections, i, lkVars, scVars,
                   finVars, lookups, runVars>>

(***************************************************************************)
(* Counting and the empty result (lines 513-548).                          *)
(***************************************************************************)
Counted ==
    LET processed == Len(Unique(SelectSeq(NamesOf(df),
                                          LAMBDA n : n # Blank)))
        total == Len(OrderNames(df_in))
    IN [processed |-> processed,
        total |-> total,
        skipped |-> Len(skipped_order_names),
        excluded |-> Cardinality(excluded_orders),
        already |-> Cardinality(already_imported),
        total_in_file |-> total + Cardinality(excluded_orders)
                              + Len(skipped_order_names)
                              + Cardinality(already_imported),
        lines |-> Len(df),
        announces_skipped |-> FALSE]

\* lines 513-548 with no line left: report and sys.exit(1)
ExitEmpty ==
    /\ pc = "counts"
    /\ Len(df) = 0
    /\ counts' = Counted
    /\ Exit("empty", 1)
    /\ UNCHANGED <<envVars, fs, fs0, snapVars, input, df_in, clsVars, df,
                   sku_cache, sku_corrections, i, lkVars, scVars,
                   still_skipped, skipped_order_names, lookups, runVars>>

\* lines 513-550 with lines left
CountOrders ==
    /\ pc = "counts"
    /\ Len(df) > 0
    /\ counts' = Counted
    /\ pc' = "emit_orders"
    /\ UNCHANGED <<outcome, exit_code, envVars, fs, fs0, snapVars, input,
                   df_in, clsVars, df, sku_cache, sku_corrections, i, lkVars,
                   scVars, still_skipped, skipped_order_names, lookups,
                   runVars>>

(***************************************************************************)
(* Output files (lines 552-675).                                           *)
(***************************************************************************)
\* Slip: a line is taken for a first line when the line before it belongs
\* to another order.
IsFirstLine_ComparesPrevious(lines, k) ==
    k = 1 \/ lines[k - 1].Name # lines[k].Name

\* ~df_final.duplicated(subset=['Order Reference'], keep='first')
IsFirstLine(lines, k) == \A j \in 1..(k - 1) : lines[j].Name # lines[k].Name

\* lines 554-574
OrderBatch(lines) ==
    [k \in 1..Len(lines) |->
        IF IsFirstLine(lines, k)
        THEN [ref |-> lines[k].Name, customer |-> lines[k].bill,
              invoice |-> "Shopify", delivery |-> lines[k].bill,
              date |-> CleanDate(lines[k].paid), qty |-> lines[k].qty,
              product |-> lines[k].sku, idx |-> lines[k].idx]
        ELSE [ref |-> Blank, customer |-> Blank, invoice |-> Blank,
              delivery |-> Blank, date |-> Blank, qty |-> lines[k].qty,
              product |-> lines[k].sku, idx |-> lines[k].idx]]

EmitOrders ==
    /\ pc = "emit_orders"
    /\ fs' = [fs EXCEPT !.orders = File(OrderBatch(df))]
    /\ pc' = "emit_contacts"
    /\ UNCHANGED <<outcome, exit_code, envVars, fs0, snapVars, input, df_in,
                   clsVars, df, sku_cache, sku_corrections, i, lkVars, scVars,
                   finVars, lookups, runVars>>

\* Slip: keep='last'.
DropDuplicateNames_KeepLast(s) ==
    SelectSeq(s, LAMBDA l : \A k \in 1..Len(s) :
                               s[k].Name = l.Name => s[k].idx <= l.idx)

\* drop_duplicates(subset=['Name'], keep='first')
RECURSIVE DropDuplicateNames(_)
DropDuplicateNames(s) ==
    IF s = <<>> THEN <<>>
    ELSE LET r == DropDuplicateNames(SubSeq(s, 1, Len(s) - 1))
             l == s[Len(s)]
         IN IF \E k \in 1..Len(r) : r[k].Name = l.Name THEN r
            ELSE Append(r, l)

\* lines 587-618
ContactBatch(idxs, existing) ==
    LET named == SelectSeq(idxs, LAMBDA k : input[k].bill # Blank)
        rows == DropDuplicateNames(
                    [k \in 1..Len(named) |->
                        [Name |-> input[named[k]].bill, idx |-> named[k]]])
    IN IF existing # {}
       THEN SelectSeq(rows, LAMBDA c : c.Name \notin existing)
       ELSE rows

EmitContacts ==
    /\ pc = "emit_contacts"
    /\ fs' = [fs EXCEPT !.contacts = File(ContactBatch(df_in, df_contacts))]
    /\ pc' = "emit_corrections"
    /\ UNCHANGED <<outcome, exit_code, envVars, fs0, snapVars, input, df_in,
                   clsVars, df, sku_cache, sku_corrections, i, lkVars, scVars,
                   finVars, lookups, runVars>>

\* lines 630-675: sku_corrections.csv and the final summary
EmitCorrections ==
    /\ pc = "emit_corrections"
    /\ fs' = IF sku_corrections # <<>>
             THEN [fs EXCEPT !.corrections = File(sku_corrections)]
             ELSE fs
    /\ counts' = [counts EXCEPT !.announces_skipped = fs.failed.exists]
    /\ Exit("done", 0)
    /\ UNCHANGED <<envVars, fs0, snapVars, input, df_in, clsVars, df,
                   sku_cache, sku_corrections, i, lkVars, scVars,
                   still_skipped, skipped_order_names, lookups, runVars>>

(***************************************************************************)
(* A file write that fails (the file is open in another program, the disk  *)
(* is full): to_csv / open raise, no handler catches the exception and the *)
(* process dies where it stands; what was written before stays written.    *)
(***************************************************************************)
\* The script is about to write a file (lines 476, 479, 576, 620, 633).
WriteAttempted ==
    \/ pc = "final" /\ Len(SkipMarked(df)) > 0
    \/ pc \in {"failedtxt", "emit_orders", "emit_contacts"}
    \/ pc = "emit_corrections" /\ sku_corrections # <<>>

WriteFails ==
    /\ WriteAttempted
    /\ Exit("write_error", 1)
    /\ UNCHANGED <<envVars, fs, fs0, snapVars, input, df_in, clsVars, df,
                   sku_cache, sku_corrections, i, lkVars, scVars, finVars,
                   lookups, runVars>>

(***************************************************************************)
(* One run of the engine.                                                  *)
(***************************************************************************)
Next ==
    \/ LoadOdooData
    \/ ReadInput
    \/ ReadInputFails
    \/ FilterOrders
    \/ FilterOrdersRaises
    \/ CheckAlreadyImported
    \/ Normalize
    \/ SweepContinue
    \/ SweepCacheHit
    \/ SweepAutoSkip
    \/ SweepLookup
    \/ SweepEnd
    \/ SearchPrompt
    \/ SelectPrompt
    \/ SecondChancePrompt
    \/ SecondChanceEnd
    \/ SaveFailedOrders
    \/ NothingSkipped
    \/ WriteFailedTxt
    \/ ExitEmpty
    \/ CountOrders
    \/ EmitOrders
    \/ EmitContacts
    \/ EmitCorrections
    \/ WriteFails

Spec == Init /\ [][Next]_vars

(***************************************************************************)
(* Two runs in sequence: the operator starts the script again after a run  *)
(* that completed or ended empty; the files stay as the first run left     *)
(* them and the target system is unchanged.                                *)
(***************************************************************************)
\* Order names of the lines written to 02_orders_upload.csv by this run.
BatchOrders == IF outcome = "done" THEN {df[k].Name : k \in 1..Len(df)} ELSE {}

StartNextRun ==
    /\ pc = "exit"
    /\ outcome \in {"done", "empty"}
    /\ run = 1
    /\ run' = 2
    /\ prev' = [outcome |-> outcome, batch |-> BatchOrders,
                deferred |-> Range(skipped_order_names), cache |-> sku_cache,
                input |-> input]
    /\ fs0' = fs
    /\ pc' = "load"
    /\ outcome' = "running"
    /\ exit_code' = 0
    /\ df_contacts' = {} /\ df_orders' = {} /\ odoo_skus' = {}
    /\ input' = <<>> /\ df_in' = <<>>
    /\ total_orders_before' = 0
    /\ excluded_orders' = {} /\ excluded_reasons' = <<>>
    /\ already_imported' = {}
    /\ df' = <<>>
    /\ sku_cache' = <<>>
    /\ sku_corrections' = <<>>
    /\ i' = 1
    /\ lk' = NoLookup /\ results' = <<>> /\ current_page' = 0
    /\ skipped_rows' = <<>> /\ pending' = <<>>
    /\ still_skipped' = <<>> /\ skipped_order_names' = <<>>
    /\ counts' = NoCounts
    /\ lookups' = <<>>
    /\ UNCHANGED <<envVars, fs>>

NextRetry == Next \/ StartNextRun

InitRetry == InitFrom(RetryScenarios)

SpecRetry == InitRetry /\ [][NextRetry]_vars

(***************************************************************************)
(* The live-sync path (src/sync_shopify_live.py, main): the orders come    *)
(* from the Shopify API instead of orders_export.csv.  input holds the     *)
(* rows flatten_shopify_order makes of them (one per line item, the order  *)
(* fields on every row), df is df_filtered.  interactive_sku_lookup is the *)
(* copy of the function of the import engine without the auto-skip mode;   *)
(* its prompts are the actions SearchPrompt and SelectPrompt.              *)
(***************************************************************************)
\* Line items of the orders of the store.
SyncPool ==
    { Row("A", "0.00", "paid",    "",   "Ann", T1, "",   "D1", 1),
      Row("A", "0.00", "paid",    "",   "Ann", T1, "S1", "D2", 2),
      Row("B", "0.00", "paid",    "",   "Bob", T2, "U1", "D1", 1),
      Row("B", "0.00", "paid",    "",   "Bob", T2, "U1", "D2", 1),
      Row("C", "0.00", "pending", "",   "Bob", T2, "S1", "D1", 1),
      Row("D", "5.00", "paid",    "",   "Ann", T1, "",   "D1", 1),
      Row("E", "0.00", "PAID",    "",   "Bob", T2, "S1", "D1", 1) }

\* all_rows.extend(rows): the rows of one order follow one another
Flattened(s) ==
    \A j, k \in 1..Len(s) :
        (j < k /\ s[j].name = s[k].name) =>
            \A m \in j..k : s[m].name = s[j].name

SyncScenarios ==
    [odoo : {Odoo({}), Odoo({"B"})}, down : {{}, {"shopify"}, {"orders"}}]

InitSync ==
    /\ pc = "sync_filter"
    /\ outcome = "running"
    /\ exit_code = 0
    /\ \E sc \in SyncScenarios : odoo = sc.odoo /\ down = sc.down
    /\ auto_skip = FALSE
    /\ fs = InitFiles(NoFile)
    /\ fs0 = fs
    /\ df_contacts = {} /\ df_orders = {} /\ odoo_skus = {}
    /\ input \in {s \in SeqsUpTo(SyncPool, MaxRows) : Flattened(s)}
    /\ df_in = <<>>
    /\ total_orders_before = 0
    /\ excluded_orders = {} /\ excluded_reasons = <<>>
    /\ already_imported = {}
    /\ df = <<>>
    /\ sku_cache = <<>>
    /\ sku_corrections = <<>>
    /\ i = 1
    /\ lk = NoLookup /\ results = <<>> /\ current_page = 0
    /\ skipped_rows = <<>> /\ pending = <<>>
    /\ still_skipped = <<>> /\ skipped_order_names = <<>>
    /\ counts = NoCounts
    /\ lookups = <<>>
    /\ run = 1
    /\ prev = NoPrev
    /\ ImporterIdle
    /\ menu = NoMenu

\* The rows of df_shopify as lines (no forward-fill in this path).
SyncLines(idxs) ==
    [k \in 1..Len(idxs) |->
        [idx |-> idxs[k], Name |-> input[idxs[k]].name,
         bill |-> input[idxs[k]].bill, paid |-> input[idxs[k]].paid,
         qty |-> input[idxs[k]].qty, sku |-> input[idxs[k]].sku,
         desc |-> input[idxs[k]].desc]]

\* lines 447-451: the row filter
PassesSyncFilter(r) ==
    /\ r.fin = "paid"
    /\ ParseFloat(r.ref).val = 0
    /\ r.ful = Blank

\* lines 423-427: the orders cannot be fetched
SyncFetchFails ==
    /\ pc = "sync_filter"
    /\ "shopify" \in down
    /\ Exit("fetch_error", 1)
    /\ UNCHANGED <<envVars, fs, fs0, snapVars, input, df_in, clsVars, df,
                   sku_cache, sku_corrections, i, lkVars, scVars, finVars,
                   lookups, runVars>>

\* lines 423-458: fetch, flatten, filter
SyncFilter ==
    /\ pc = "sync_filter"
    /\ "shopify" \notin down
    /\ LET kept == SelectSeq([k \in 1..Len(input) |-> k],
                             LAMBDA k : PassesSyncFilter(input[k]))
       IN /\ df' = SyncLines(kept)
          /\ IF kept = <<>>
             THEN Exit("empty", 0)
             ELSE pc' = "sync_imported" /\ UNCHANGED <<outcome, exit_code>>
    /\ UNCHANGED <<envVars, fs, fs0, snapVars, input, df_in, clsVars,
                   sku_cache, sku_corrections, i, lkVars, scVars, finVars,
                   lookups, runVars>>

\* df_filtered[~df_filtered['Name'].isin(already_imported)]
SyncDropOrders(lines, S) == SelectSeq(lines, LAMBDA l : l.Name \notin S)

\* lines 460-483: load_odoo_data and the already-imported check
SyncCheckImported ==
    /\ pc = "sync_imported"
    /\ df_contacts' = IF "contacts" \in down THEN {} ELSE odoo.contacts
    /\ df_orders' = IF "orders" \in down THEN {} ELSE odoo.orders
    /\ odoo_skus' = IF "products" \in down THEN {} ELSE odoo.skus
    /\ LET imported == {o \in Range(NamesOf(df)) : o \in df_orders'}
       IN /\ already_imported' = imported
          /\ df' = SyncDropOrders(df, imported)
          /\ IF SyncDropOrders(df, imported) = <<>>
             THEN Exit("empty", 0)
             ELSE pc' = "sync_sweep" /\ UNCHANGED <<outcome, exit_code>>
    /\ i' = 1
    /\ UNCHANGED <<envVars, fs, fs0, input, df_in, total_orders_before,
                   excluded_orders, excluded_reasons, sku_cache,
                   sku_corrections, lkVars, scVars, finVars, lookups,
                   runVars>>

\* lines 488-494: nothing to do for this row
SyncSweepContinue ==
    /\ pc = "sync_sweep"
    /\ i <= Len(df)
    /\ df[i].desc = Blank \/ ~NeedsFix(df[i].sku)
    /\ i' = i + 1
    /\ UNCHANGED <<pc, outcome, exit_code, envVars, fs, fs0, snapVars, input,
                   df_in, clsVars, df, sku_cache, sku_corrections, lkVars,
                   scVars, finVars, lookups, runVars>>

\* lines 497-511: what a cache hit appends to the log
SyncCacheHitLog(log, line, cached) ==
    IF cached # None
    THEN Append(log, Correction(line.Name, line.desc, line.sku, cached))
    ELSE log

\* lines 496-511: the description is in the cache
SyncSweepCacheHit ==
    /\ pc = "sync_sweep"
    /\ i <= Len(df)
    /\ df[i].desc # Blank /\ NeedsFix(df[i].sku)
    /\ df[i].desc \in DOMAIN sku_cache
    /\ LET cached == sku_cache[df[i].desc]
       IN /\ df' = [df EXCEPT ![i].sku = IF cached # None THEN cached ELSE SKIP]
          /\ sku_corrections' = SyncCacheHitLog(sku_corrections, df[i], cached)
    /\ i' = i + 1
    /\ UNCHANGED <<pc, outcome, exit_code, envVars, fs, fs0, snapVars, input,
                   df_in, clsVars, sku_cache, lkVars, scVars, finVars,
                   lookups, runVars>>

\* lines 512-514 with lines 209-222: the lookup starts and waits at the
\* search prompt
SyncSweepLookup ==
    /\ pc = "sync_sweep"
    /\ i <= Len(df)
    /\ df[i].desc # Blank /\ NeedsFix(df[i].sku)
    /\ df[i].desc \notin DOMAIN sku_cache
    /\ lk' = [name |-> df[i].desc, order |-> df[i].Name,
              current_sku |-> df[i].sku, caller |-> "sync"]
    /\ lookups' = Append(lookups, df[i].desc)
    /\ pc' = "search"
    /\ UNCHANGED <<outcome, exit_code, envVars, fs, fs0, snapVars, input,
                   df_in, clsVars, df, sku_cache, sku_corrections, i, results,
                   current_page, scVars, finVars, runVars>>

\* lines 527-547: the orders with a skip-marked line are removed
SyncHandleSkipped ==
    /\ pc = "sync_sweep"
    /\ i > Len(df)
    /\ skipped_rows' = SkipMarked(df)
    /\ skipped_order_names' = Unique(NamesOf(SkipMarked(df)))
    /\ df' = RemoveFailed(df, Unique(NamesOf(SkipMarked(df))))
    /\ IF RemoveFailed(df, Unique(NamesOf(SkipMarked(df)))) = <<>>
       THEN Exit("empty", 0)
       ELSE pc' = "sync_emit" /\ UNCHANGED <<outcome, exit_code>>
    /\ UNCHANGED <<envVars, fs, fs0, snapVars, input, df_in, clsVars,
                   sku_cache, sku_corrections, i, lkVars, pending,
                   still_skipped, counts, lookups, runVars>>

\* lines 549-640: the three files and the summary
SyncEmit ==
    /\ pc = "sync_emit"
    /\ fs' = [fs EXCEPT
                 !.orders = File(OrderBatch(df)),
                 !.contacts =
                     File(ContactBatch([k \in 1..Len(df) |-> df[k].idx],
                                       df_contacts)),
                 !.corrections = IF sku_corrections # <<>>
                                 THEN File(sku_corrections)
                                 ELSE fs.corrections]
    /\ Exit("done", 0)
    /\ UNCHANGED <<envVars, fs0, snapVars, input, df_in, clsVars, df,
                   sku_cache, sku_corrections, i, lkVars, scVars, finVars,
                   lookups, runVars>>

NextSync ==
    \/ SyncFetchFails
    \/ SyncFilter
    \/ SyncCheckImported
    \/ SyncSweepContinue
    \/ SyncSweepCacheHit
    \/ SyncSweepLookup
    \/ SearchPrompt
    \/ SelectPrompt
    \/ SyncHandleSkipped
    \/ SyncEmit

SpecSync == InitSync /\ [][NextSync]_vars

(***************************************************************************)
(* The importer (src/import_to_odoo.py): main imports the contacts of      *)
(* 01_contacts_upload.csv, then import_orders reads 02_orders_upload.csv   *)
(* and creates the sale orders in the target system.  It starts from the   *)
(* files a completed run of the import engine left.  The XML-RPC calls the *)
(* code wraps in try/except may fail: creating an order, creating a line,  *)
(* reading the stock, confirming an order.                                 *)
(***************************************************************************)
\* Executions of import_to_odoo.py on the same files.
MaxImports == 2

\* Rows of orders_export.csv of paid orders, as the engine resolved them;
\* a row with an empty description keeps the reference it came with.
ImportPool ==
    { Row("A", "", "paid", "", "Ann", T1, "S1", "D1", 2),
      Row("A", "", "paid", "", "Ann", T1, "S2", "D2", 1),
      Row("A", "", "paid", "", "Ann", T1, "U1", "",   1),
      Row("B", "", "paid", "", "Bob", T2, "S1", "D1", 2),
      Row("B", "", "paid", "", "Bob", T2, "",   "",   1) }

\* stock.quant of the internal locations: quantity and reserved_quantity
\* of a product.
Quant(q, r) == [quantity |-> q, reserved_quantity |-> r]
StockLevels ==
    { ("S1" :> Quant(5, 2)) @@ ("S2" :> Quant(1, 1)),
      ("S1" :> Quant(5, 0)) @@ ("S2" :> Quant(4, 0)) }

\* The sale orders the target system holds before the first import.
SaleOrder(name, partner, lines, state) ==
    [name |-> name, partner |-> partner, lines |-> lines, state |-> state]
ExistingSaleOrders ==
    { <<>>,
      <<SaleOrder("A", "Ann",
                  <<[product_sku |-> "S2", quantity |-> 1, idx |-> 0]>>,
                  "quotation")>> }

InitImport ==
    /\ pc = "import"
    /\ outcome = "done"
    /\ exit_code = 0
    /\ odoo = Odoo({})
    /\ down = {}
    /\ auto_skip = FALSE
    /\ input \in SeqsUpTo(ImportPool, MaxRows) \ {<<>>}
    /\ df_in = [k \in 1..Len(input) |-> k]
    /\ df = Normalized(df_in)
    /\ fs = [export |-> File(input), orders |-> File(OrderBatch(df)),
             contacts |-> File(ContactBatch(df_in, odoo.contacts)),
             corrections |-> NoFile, failed |-> NoFile]
    /\ fs0 = InitFiles(File(input))
    /\ df_contacts = odoo.contacts /\ df_orders = {}
    /\ odoo_skus = odoo.skus
    /\ total_orders_before = 0
    /\ excluded_orders = {} /\ excluded_reasons = <<>>
    /\ already_imported = {}
    /\ sku_cache = <<>>
    /\ sku_corrections = <<>>
    /\ i = 1
    /\ lk = NoLookup /\ results = <<>> /\ current_page = 0
    /\ skipped_rows = <<>> /\ pending = <<>>
    /\ still_skipped = <<>> /\ skipped_order_names = <<>>
    /\ counts = NoCounts
    /\ lookups = <<>>
    /\ run = 1
    /\ prev = NoPrev
    /\ sale_orders \in ExistingSaleOrders
    /\ stock \in StockLevels
    /\ auto_confirm \in BOOLEAN
    /\ current = NoCurrent
    /\ groups = <<>>
    /\ menu = NoMenu

\* What the importer leaves alone.
ImportFrame ==
    UNCHANGED <<outcome, exit_code, down, auto_skip, fs, fs0, snapVars,
                input, df_in, clsVars, df, sku_cache, sku_corrections,
                lkVars, scVars, finVars, lookups, prev, stock, auto_confirm,
                menu>>

\* lines 112-130: the product of a reference, None if there is none
get_product_by_sku(sku) == IF sku \in odoo.skus THEN sku ELSE None

\* lines 132-157: on hand minus reserved; 0 when the query fails
get_product_available_qty(product_id, fails) ==
    IF fails THEN 0
    ELSE stock[product_id].quantity - stock[product_id].reserved_quantity

\* lines 159-190
check_order_availability(line_items_with_products, fails) ==
    \A k \in 1..Len(line_items_with_products) :
        get_product_available_qty(line_items_with_products[k].product_sku,
                                  fails)
            >= line_items_with_products[k].quantity

\* The calls of one create_sale_order that fail: sale.order create, the
\* sale.order.line create of the lines at the positions bad, the stock
\* query, action_confirm.
Faults(n) ==
    [create : BOOLEAN, bad : SUBSET (1..n), stock : BOOLEAN,
     confirm : BOOLEAN]

\* lines 238-263: the lines created for the order
LinesCreated(line_items, bad) ==
    LET kept == SelectSeq([k \in 1..Len(line_items) |-> k],
                    LAMBDA k :
                        /\ get_product_by_sku(line_items[k].product_sku) # None
                        /\ k \notin bad)
    IN [k \in 1..Len(kept) |-> line_items[kept[k]]]

\* lines 192-294: the sale orders of the target system after the call
create_sale_order(orders, order_ref, customer_name, line_items, f) ==
    IF f.create THEN orders
    ELSE LET created == LinesCreated(line_items, f.bad)
         IN IF created = <<>>
            THEN orders
            ELSE Append(orders,
                    SaleOrder(order_ref, customer_name, created,
                        IF /\ auto_confirm
                           /\ check_order_availability(created, f.stock)
                           /\ ~f.confirm
                        THEN "confirmed" ELSE "quotation"))

\* Slip: the existence check is left out.
Existing_Never(orders, name) == FALSE

\* sale.order search [['name', '=', current_order]]
Existing(orders, name) == \E k \in 1..Len(orders) : orders[k].name = name

\* lines 405-427 and 451-473: the order collected so far is handed on
SavePrevious(orders, cur, f) ==
    IF cur.order # Blank /\ cur.lines # <<>>
    THEN IF Existing(orders, cur.order) THEN orders
         ELSE create_sale_order(orders, cur.order, cur.customer, cur.lines, f)
    ELSE orders

Handed(cur) ==
    IF cur.order # Blank /\ cur.lines # <<>>
    THEN Append(groups, [order |-> cur.order, lines |-> cur.lines])
    ELSE groups

\* lines 209-213: get_or_create_partner for the customer and the invoice
\* address, before the order is created
PartnersOf(orders, cur) ==
    IF cur.order # Blank /\ cur.lines # <<>> /\ ~Existing(orders, cur.order)
    THEN {cur.customer, "Shopify"}
    ELSE {}

\* lines 439-448: the line item of a row, if it has a reference and a
\* quantity
WithLine(lines, row) ==
    IF row.product # Blank /\ row.qty # 0
    THEN Append(lines, [product_sku |-> row.product, quantity |-> row.qty,
                        idx |-> row.idx])
    ELSE lines

\* main, import_contacts (lines 300-359) and the head of import_orders
\* (lines 364-398)
ImportStart ==
    /\ pc = "import"
    /\ \E failed \in SUBSET {c.Name : c \in Range(fs.contacts.rows)} :
          odoo' = [odoo EXCEPT !.contacts =
                      @ \cup ({c.Name : c \in Range(fs.contacts.rows)}
                                 \ failed)]
    /\ pc' = IF fs.orders.exists /\ fs.orders.rows # <<>>
             THEN "import_rows" ELSE "imported"
    /\ i' = 1
    /\ current' = NoCurrent
    /\ groups' = <<>>
    /\ UNCHANGED <<sale_orders, run>>
    /\ ImportFrame

\* lines 400-448: one row of the file
ImportRow ==
    /\ pc = "import_rows"
    /\ i <= Len(fs.orders.rows)
    /\ LET row == fs.orders.rows[i]
       IN IF row.ref # Blank
          THEN /\ \E f \in Faults(Len(current.lines)) :
                     sale_orders' = SavePrevious(sale_orders, current, f)
               /\ groups' = Handed(current)
               /\ current' = [order |-> row.ref, customer |-> row.customer,
                              lines |-> WithLine(<<>>, row)]
          ELSE /\ current' = [current EXCEPT
                                 !.lines = WithLine(current.lines, row)]
               /\ UNCHANGED <<sale_orders, groups>>
    /\ odoo' = [odoo EXCEPT
                   !.contacts = IF fs.orders.rows[i].ref # Blank
                                THEN @ \cup PartnersOf(sale_orders, current)
                                ELSE @,
                   !.orders = @ \cup {sale_orders'[k].name :
                                        k \in 1..Len(sale_orders')}]
    /\ i' = i + 1
    /\ UNCHANGED <<pc, run>>
    /\ ImportFrame

\* lines 450-476: the last order, and the end of import_orders
ImportLast ==
    /\ pc = "import_rows"
    /\ i > Len(fs.orders.rows)
    /\ \E f \in Faults(Len(current.lines)) :
          sale_orders' = SavePrevious(sale_orders, current, f)
    /\ groups' = Handed(current)
    /\ odoo' = [odoo EXCEPT !.contacts = @ \cup PartnersOf(sale_orders,
                                                           current),
                            !.orders = @ \cup {sale_orders'[k].name :
                                                 k \in 1..Len(sale_orders')}]
    /\ pc' = "imported"
    /\ UNCHANGED <<i, current, run>>
    /\ ImportFrame

\* the operator starts import_to_odoo.py once more on the same files
ImportAgain ==
    /\ pc = "imported"
    /\ run < MaxImports
    /\ run' = run + 1
    /\ pc' = "import"
    /\ UNCHANGED <<odoo, sale_orders, i, current, groups>>
    /\ ImportFrame

NextImport ==
    \/ ImportStart
    \/ ImportRow
    \/ ImportLast
    \/ ImportAgain

SpecImport == InitImport /\ [][NextImport]_vars

(***************************************************************************)
(* The menu entry 'Import Shopify Data' (src/materials_menu.py,            *)
(* run_shopify_import) and the script it runs first                        *)
(* (src/shopify_import_preflight.py).  The preflight script reports the    *)
(* operator's choice on its standard output and through its exit status;   *)
(* the menu looks for the choice in the file .preflight_choice, which the  *)
(* preflight script does not write: the file is there only if something    *)
(* else left it in the directory.                                          *)
(***************************************************************************)
ChoiceFiles == {"absent", "RUN_INTERACTIVE", "RUN_SKIP_ALL", "CANCEL"}

MenuScenarios ==
    [pool : {ClassifyPool}, odoo : {Odoo({}), Odoo({"A"})},
     down : {{}, {"orders"}}, choice_file : ChoiceFiles]

InitMenu ==
    /\ pc = "menu"
    /\ outcome = "running"
    /\ exit_code = 0
    /\ \E sc \in MenuScenarios :
          /\ odoo = sc.odoo
          /\ down = sc.down
          /\ menu = [NoMenu EXCEPT !.choice_file = sc.choice_file]
          /\ \E f \in {NoFile} \cup
                      {File(r) : r \in SeqsUpTo(sc.pool, MaxRows)} :
                fs = InitFiles(f)
    /\ auto_skip = FALSE
    /\ fs0 = fs
    /\ df_contacts = {} /\ df_orders = {} /\ odoo_skus = {}
    /\ input = <<>> /\ df_in = <<>>
    /\ total_orders_before = 0
    /\ excluded_orders = {} /\ excluded_reasons = <<>>
    /\ already_imported = {}
    /\ df = <<>>
    /\ sku_cache = <<>>
    /\ sku_corrections = <<>>
    /\ i = 1
    /\ lk = NoLookup /\ results = <<>> /\ current_page = 0
    /\ skipped_rows = <<>> /\ pending = <<>>
    /\ still_skipped = <<>> /\ skipped_order_names = <<>>
    /\ counts = NoCounts
    /\ lookups = <<>>
    /\ run = 1
    /\ prev = NoPrev
    /\ ImporterIdle

\* What the menu and the preflight script leave alone.
MenuFrame ==
    UNCHANGED <<outcome, exit_code, odoo, down, impVars, fs, fs0, snapVars,
                input, df_in, clsVars, df, sku_cache, sku_corrections, i,
                lkVars, scVars, finVars, lookups, runVars>>

\* preflight lines 27-69: the file or the target system cannot be read
PreflightError == ~fs.export.exists \/ down # {}

\* preflight line 77: the order names of the file
PreflightOrderNames ==
    Unique(SelectSeq([k \in 1..Len(fs.export.rows) |->
                         fs.export.rows[k].name],
                     LAMBDA n : n # Blank))

\* preflight lines 104-109: the first row of an order
PreflightFirstRow(o) ==
    fs.export.rows[SelectSeq([k \in 1..Len(fs.export.rows) |-> k],
                       LAMBDA k : fs.export.rows[k].name = o)[1]]

\* preflight line 122 on an empty Financial Status cell: AttributeError,
\* which nothing catches
PreflightRaises ==
    \E o \in Range(PreflightOrderNames) : StatusRaises(PreflightFirstRow(o))

\* preflight lines 73-142: has_anomalies
HasAnomalies ==
    \/ \E o \in Range(PreflightOrderNames) : o \in odoo.orders
    \/ \E r \in Range(fs.export.rows) : r.sku \notin odoo.skus
    \/ \E o \in Range(PreflightOrderNames) :
          ExclusionReason(PreflightFirstRow(o)) # "none"

\* preflight lines 199-212: the choice is printed and the script exits 0
PreflightExits(choice) ==
    /\ menu' = [menu EXCEPT !.chosen = choice, !.returncode = 0]
    /\ pc' = "preflight_done"

\* menu lines 88-90 with preflight lines 145-184: the preflight script runs
\* up to its prompt, or to its end when it does not ask
PreflightStart ==
    /\ pc = "menu"
    /\ IF PreflightError THEN PreflightExits("run_interactive")
       ELSE IF PreflightRaises
            THEN /\ menu' = [menu EXCEPT !.returncode = 1]
                 /\ pc' = "preflight_done"
       ELSE IF ~HasAnomalies THEN PreflightExits("run_interactive")
       ELSE pc' = "preflight_prompt" /\ UNCHANGED menu
    /\ UNCHANGED auto_skip
    /\ MenuFrame

\* preflight lines 186-196: "Enter your choice (1-3)"
PreflightAnswer ==
    /\ pc = "preflight_prompt"
    /\ \E choice \in {"1", "2", "3", "9"} :
          CASE choice = "1" -> PreflightExits("run_interactive")
            [] choice = "2" -> PreflightExits("run_skip_all")
            [] choice = "3" -> PreflightExits("cancel")
            [] OTHER -> UNCHANGED <<pc, menu>>
    /\ UNCHANGED auto_skip
    /\ MenuFrame

\* menu lines 92-95
MenuPreflightFailed ==
    /\ pc = "preflight_done"
    /\ menu.returncode # 0
    /\ pc' = "menu_done"
    /\ UNCHANGED <<menu, auto_skip>>
    /\ MenuFrame

\* menu lines 98-102
MenuNoChoiceFile ==
    /\ pc = "preflight_done"
    /\ menu.returncode = 0
    /\ menu.choice_file = "absent"
    /\ pc' = "menu_done"
    /\ UNCHANGED <<menu, auto_skip>>
    /\ MenuFrame

\* menu lines 108-111: os.remove, whose failure is ignored
ChoiceFileRemoved(launched) ==
    \E left \in {"absent", menu.choice_file} :
        menu' = [menu EXCEPT !.choice_file = left, !.launched = launched]

\* menu lines 104-116
MenuCancel ==
    /\ pc = "preflight_done"
    /\ menu.returncode = 0
    /\ menu.choice_file = "CANCEL"
    /\ ChoiceFileRemoved("none")
    /\ pc' = "menu_done"
    /\ UNCHANGED auto_skip
    /\ MenuFrame

\* menu lines 119-135: process_shopify_exports.py is started with
\* SHOPIFY_IMPORT_AUTO_SKIP=1
MenuLaunchAutoSkip ==
    /\ pc = "preflight_done"
    /\ menu.returncode = 0
    /\ menu.choice_file = "RUN_SKIP_ALL"
    /\ ChoiceFileRemoved("auto_skip")
    /\ auto_skip' = TRUE
    /\ pc' = "load"
    /\ MenuFrame

\* menu lines 136-138: run_script("RUN_IMPORT") starts the import with the
\* environment of the menu
MenuLaunchInteractive ==
    /\ pc = "preflight_done"
    /\ menu.returncode = 0
    /\ menu.choice_file \notin {"absent", "CANCEL", "RUN_SKIP_ALL"}
    /\ ChoiceFileRemoved("interactive")
    /\ pc' = "load"
    /\ UNCHANGED auto_skip
    /\ MenuFrame

NextMenu ==
    \/ PreflightStart
    \/ PreflightAnswer
    \/ MenuPreflightFailed
    \/ MenuNoChoiceFile
    \/ MenuCancel
    \/ MenuLaunchAutoSkip
    \/ MenuLaunchInteractive

SpecMenu == InitMenu /\ [][NextMenu]_vars

(***************************************************************************)
(* Properties.                                                             *)
(***************************************************************************)
AllRows == [k \in 1..Len(input) |-> k]

\* The distinct order keys of the input.
InputOrders == Range(OrderNames(AllRows))

\* The order filter and the already-imported check are over.
Classified ==
    \/ pc \in {"normalize", "sweep", "search", "select", "second", "final",
               "failedtxt", "counts", "emit_orders", "emit_contacts",
               "emit_corrections"}
    \/ pc = "exit" /\ outcome \in {"done", "empty", "aborted"}

\* The run reached a terminal state, completed or empty.
Terminal == pc = "exit" /\ outcome \in {"done", "empty"}

\* The line of df_in at position k as normalization produced it.
OrigLine(k) == Normalized(df_in)[k]

C2_RowPartition ==
    Terminal =>
        LET E == {k \in 1..Len(input) : IsIn(input[k].name, excluded_orders)}
            A == {k \in 1..Len(input) : IsIn(input[k].name, already_imported)}
            B == IF outcome = "done"
                 THEN {fs.orders.rows[j].idx : j \in 1..Len(fs.orders.rows)}
                 ELSE {}
            U == Range(FailedOrderRecords(df_in, skipped_order_names))
        IN /\ E \cup A \cup B \cup U = 1..Len(input)
           /\ E \cap A = {} /\ E \cap B = {} /\ E \cap U = {}
           /\ A \cap B = {} /\ A \cap U = {} /\ B \cap U = {}

\* C3: an order with a line still marked __SKIP__ after the second-chance
\* pass has no line in the order batch and is counted as unresolved.
C3_OrderAtomicity ==
    (\/ pc \in {"counts", "emit_orders", "emit_contacts", "emit_corrections"}
     \/ Terminal) =>
        \A k \in 1..Len(still_skipped) :
            LET o == still_skipped[k].Name
            IN /\ \A j \in 1..Len(df) : df[j].Name # o
               /\ (pc \in {"emit_contacts", "emit_corrections"}
                      \/ outcome = "done") =>
                     \A j \in 1..Len(fs.orders.rows) :
                        \A m \in 1..Len(df_in) :
                           df_in[m] = fs.orders.rows[j].idx
                               => OrigLine(m).Name # o
               /\ o \in Range(skipped_order_names)
               /\ pc # "counts" =>
                     counts.skipped =
                        Cardinality({still_skipped[m].Name :
                                        m \in 1..Len(still_skipped)})

\* an order batch was written while an order was deferred that also has a
\* line whose reference was valid from the start
C3_Witness ==
    /\ pc = "exit" /\ outcome = "done"
    /\ \E k \in 1..Len(still_skipped) :
          \E m \in 1..Len(df_in) :
             /\ OrigLine(m).Name = still_skipped[k].Name
             /\ ~NeedsFix(OrigLine(m).sku)

\* C4: an abort at a search or selection prompt, in the first sweep or in
\* the second-chance pass, leaves every file as it was; every file write
\* happens where no prompt can follow.
C4_AbortWritesNothing ==
    /\ outcome = "aborted" => fs = fs0
    /\ fs # fs0 => pc \in {"failedtxt", "counts", "emit_orders",
                           "emit_contacts", "emit_corrections", "exit"}

\* aborted in the second-chance pass, with corrections already recorded
C4_Witness ==
    /\ pc = "exit" /\ outcome = "aborted"
    /\ lk.caller = "second"
    /\ sku_corrections # <<>>

\* The order a raw row belongs to: the most recent order identifier.
RowOrder(k) == FFill([j \in 1..Len(input) |-> input[j].name])[k]

\* C5: at a terminal state orders_export.csv holds exactly the raw rows of
\* the orders that ended with an unresolved line.
C5_ExportHoldsUnresolved ==
    Terminal =>
        /\ fs.export.exists
        /\ fs.export.rows =
              RawRows(SelectSeq(AllRows,
                        LAMBDA k : RowOrder(k) \in Range(skipped_order_names)))

\* The operator decided in the re-run as in the first run.
SameDecisions ==
    \A d \in DOMAIN sku_cache \cap DOMAIN prev.cache :
        sku_cache[d] = prev.cache[d]

\* C6: the re-run on the input the first run left processes exactly the
\* orders the first run deferred and emits no order the first run emitted.
C6_IdempotentRetry ==
    (run = 2 /\ Terminal /\ SameDecisions) =>
        /\ BatchOrders \cap prev.batch = {}
        /\ InputOrders \subseteq prev.deferred
        /\ prev.deferred \ {Blank} \subseteq InputOrders

\* C7: when a query of the target-system state fails the run aborts:
\* nothing is classified, no file is written.
C7_QueryFailureIsFatal ==
    down # {} =>
        /\ ~Classified
        /\ outcome \notin {"done", "empty"}
        /\ fs = fs0

\* What the cache says the reference of a line with description d is.
Resolution(d) == IF sku_cache[d] = None THEN SKIP ELSE sku_cache[d]

\* C8: the first sweep looks a description up at most once; every handled
\* line with a description and a missing or unknown reference carries what
\* the cache holds for its description; at the end of the resolution all
\* such lines with the same description carry the same reference.
C8_CacheConsistency ==
    /\ \A j, k \in 1..Len(lookups) : j # k => lookups[j] # lookups[k]
    /\ (\/ pc \in {"sweep", "search", "select", "second", "final"}
        \/ pc = "exit" /\ outcome = "aborted") =>
          \A k \in 1..Len(df) :
             (k < i /\ df[k].desc # Blank /\ NeedsFix(OrigLine(k).sku)) =>
                 /\ df[k].desc \in DOMAIN sku_cache
                 /\ df[k].sku = Resolution(df[k].desc)
    /\ pc = "final" =>
          \A j, k \in 1..Len(df) :
             (/\ df[j].desc = df[k].desc /\ df[j].desc # Blank
              /\ NeedsFix(OrigLine(j).sku) /\ NeedsFix(OrigLine(k).sku))
                 => df[j].sku = df[k].sku

\* two lines with one description, looked up once, both resolved
C8_Witness ==
    /\ pc = "final"
    /\ Len(lookups) = 1
    /\ \E j, k \in 1..Len(df) :
          /\ j < k
          /\ df[j].desc = lookups[1] /\ df[k].desc = lookups[1]
          /\ NeedsFix(OrigLine(j).sku) /\ NeedsFix(OrigLine(k).sku)
          /\ df[j].sku # SKIP

\* C9: at the end of the resolution every line whose reference was rewritten
\* or skip-marked has a Correction record with its order key and its
\* description whose resolved value is the line's final reference, or the
\* skip marker for a skip-marked line.
C9_EveryApplicationAudited ==
    pc = "final" =>
        \A k \in 1..Len(df) :
            df[k].sku # OrigLine(k).sku =>
                \E r \in Range(sku_corrections) :
                    /\ r.Order = df[k].Name
                    /\ r.Product = df[k].desc
                    /\ r.Corrected = IF df[k].sku = SKIP THEN SKIPPED
                                     ELSE df[k].sku

Labels == {"EXCLUDED", "ALREADY_IMPORTED", "NEEDS_RESOLUTION", "READY"}

HasLabel(o, label) ==
    LET unresolved == \E m \in 1..Len(df_in) :
                          /\ OrigLine(m).Name = o
                          /\ OrigLine(m).desc # Blank
                          /\ NeedsFix(OrigLine(m).sku)
    IN CASE label = "EXCLUDED" -> o \in excluded_orders
         [] label = "ALREADY_IMPORTED" -> o \in already_imported
         [] label = "NEEDS_RESOLUTION" ->
               o \in Range(OrderNames(df_in)) /\ unresolved
         [] OTHER -> o \in Range(OrderNames(df_in)) /\ ~unresolved

\* C10: classification completes for every input and gives every order key
\* exactly one label.
C10_ClassificationTotal ==
    /\ pc = "exit" => outcome # "crashed"
    /\ Classified =>
          \A o \in InputOrders :
              Cardinality({l \in Labels : HasLabel(o, l)}) = 1

\* The label the priority list gives an order from its first raw row and
\* from its lines.
PriorityLabel(o, lines) ==
    LET r == FirstRow(AllRows, o)
        refunded == r.ref # Blank /\ ParseFloat(r.ref).ok
                        /\ ParseFloat(r.ref).val > 0
    IN IF refunded THEN "Refunded"
       ELSE IF Lower(r.fin) # "paid" THEN "Not paid"
       ELSE IF r.ful # Blank THEN "Already fulfilled"
       ELSE IF \E k \in 1..Len(lines) :
                  lines[k].Name = o /\ NeedsFix(lines[k].sku)
            THEN "NEEDS_RESOLUTION"
            ELSE "READY"

\* The label the run gave an order: the reason it was excluded for, or
\* whether the sweep took a decision for one of its lines (every decision of
\* the sweep is recorded under the order of the line).
GivenLabel(o) ==
    IF outcome = "crashed" THEN "none"
    ELSE IF o \in excluded_orders THEN excluded_reasons[o]
    ELSE IF o \in already_imported THEN "ALREADY_IMPORTED"
    ELSE IF \E r \in Range(sku_corrections) : r.Order = o
         THEN "NEEDS_RESOLUTION"
         ELSE "READY"

\* C11: an order that is not in the target system is excluded as refunded,
\* else as not paid, else as already fulfilled, by its first row only, and
\* otherwise needs resolution exactly when one of its lines has a missing or
\* catalog-unknown reference; the run gives every such order this label.
C11_LabelPriority ==
    /\ (Classified \/ (pc = "exit" /\ outcome = "crashed")) =>
          \A o \in InputOrders \ odoo.orders :
              (PriorityLabel(o, <<>>) \notin {"NEEDS_RESOLUTION", "READY"}
                 \/ GivenLabel(o) \notin {"NEEDS_RESOLUTION", "READY"})
                  => GivenLabel(o) = PriorityLabel(o, <<>>)
    /\ pc = "final" =>
          \A o \in InputOrders \ odoo.orders :
              GivenLabel(o) = PriorityLabel(o, Normalized(df_in))

\* A prompt is open: the process waits for the operator at a search prompt,
\* a selection prompt or a second-chance prompt.
AtPrompt == pc \in {"search", "select"} \/ (pc = "second" /\ pending # <<>>)

\* C12: with auto-skip mode on, no prompt is issued; at the end of the
\* resolution every line with a missing or catalog-unknown reference is
\* marked __SKIP__, and when the run ends the order of every such line is in
\* the rewritten orders_export.csv, has a section of failed_orders.txt and
\* has no row in the order batch.
C12_AutoSkipNoPrompt ==
    auto_skip =>
        /\ ~AtPrompt /\ lookups = <<>>
        /\ pc = "final" =>
              \A k \in 1..Len(df) :
                  NeedsFix(OrigLine(k).sku) => df[k].sku = SKIP
        /\ Terminal =>
              \A k \in 1..Len(df_in) :
                  NeedsFix(OrigLine(k).sku) =>
                      /\ \E j \in 1..Len(fs.export.rows) :
                            fs.export.rows[j].name = OrigLine(k).Name
                      /\ fs.failed.exists
                      /\ \E j \in 1..Len(fs.failed.rows) :
                            fs.failed.rows[j].order = OrigLine(k).Name
                      /\ outcome = "done" =>
                            \A j \in 1..Len(fs.orders.rows) :
                                fs.orders.rows[j].idx # df_in[k]

\* The second-chance pass of an interactive run is running or is over.
InSecondChance ==
    \/ pc = "second"
    \/ pc \in {"search", "select"} /\ lk.caller = "second"
    \/ pc = "final" /\ ~auto_skip

\* The line at position k of df was skip-marked by the first sweep.
WasSkipped(k) ==
    \E j \in 1..Len(skipped_rows) : skipped_rows[j].idx = df[k].idx

\* C13: in the second-chance pass the descriptions still to be offered are
\* a suffix of the distinct descriptions of the skip-marked lines, each of
\* them once, and none is left when the pass is over; the skip-marked lines
\* of a description not yet decided are all skip-marked, and after the
\* decision they all carry the selected reference, or are all still
\* skip-marked when the operator declined or skipped again.
C13_SecondChanceOncePerDescription ==
    InSecondChance =>
        LET U == Unique(DescsOf(skipped_rows))
        IN /\ \A j, k \in 1..Len(U) : j # k => U[j] # U[k]
           /\ \E n \in 0..Len(U) : pending = SubSeq(U, n + 1, Len(U))
           /\ pc = "final" => pending = <<>>
           /\ \A d \in Range(U) :
                 LET L == {k \in 1..Len(df) : df[k].desc = d /\ WasSkipped(k)}
                 IN /\ L # {}
                    /\ d \in Range(pending) => \A k \in L : df[k].sku = SKIP
                    /\ \/ \A k \in L : df[k].sku = SKIP
                       \/ /\ sku_cache[d] # None
                          /\ \A k \in L : df[k].sku = sku_cache[d]

\* the pass is over; one description was declined and stays skip-marked,
\* another was retried and its two lines carry the selected reference
C13_Witness ==
    /\ pc = "final" /\ ~auto_skip
    /\ \E j, k, m \in 1..Len(df) :
          /\ j # k
          /\ WasSkipped(j) /\ WasSkipped(k) /\ WasSkipped(m)
          /\ df[j].desc = df[k].desc
          /\ df[j].sku = "S2" /\ df[k].sku = "S2"
          /\ df[m].sku = SKIP

\* C14: a decision taken at a prompt of the first sweep for the line L at
\* the sweep position, with description D: after a selection of S the cache
\* holds S for D, L carries S and exactly one Correction (L's order key, D,
\* L's original reference, S) is appended; after a skip the cache holds the
\* skip marker for D, L carries __SKIP__ and exactly one Correction noting
\* the skip is appended; every other line, every other field of L and every
\* other cache entry are unchanged.
C14_DecisionEffects ==
    [][(pc \in {"search", "select"} /\ lk.caller = "sweep" /\ pc' = "sweep") =>
          LET D == df[i].desc
              original == IF df[i].sku = Blank THEN MISSING ELSE df[i].sku
          IN /\ \/ \E S \in Range(results) :
                      /\ sku_cache'[D] = S
                      /\ df'[i].sku = S
                      /\ sku_corrections' =
                            Append(sku_corrections,
                                   [Order |-> df[i].Name, Product |-> D,
                                    ShopifySku |-> original, Corrected |-> S,
                                    Action |-> ActUpdate])
                \/ /\ sku_cache'[D] = None
                   /\ df'[i].sku = SKIP
                   /\ sku_corrections' =
                         Append(sku_corrections,
                                [Order |-> df[i].Name, Product |-> D,
                                 ShopifySku |-> original, Corrected |-> SKIPPED,
                                 Action |-> ActSkipped])
             /\ df' = [df EXCEPT ![i].sku = df'[i].sku]
             /\ DOMAIN sku_cache' = DOMAIN sku_cache \cup {D}
             /\ \A d \in DOMAIN sku_cache : d # D => sku_cache'[d] = sku_cache[d]
      ]_vars

\* the sweep took two decisions at prompts: a skip for the first line and a
\* selection for the second line, whose reference was unknown to the catalog
C14_Witness ==
    /\ pc = "sweep" /\ i = 3
    /\ Len(lookups) = 2
    /\ df[1].sku = SKIP
    /\ OrigLine(2).sku = "U1" /\ df[2].sku = "S2"
    /\ Len(sku_corrections) = 2
    /\ sku_corrections[2].ShopifySku = "U1"

\* C15: every row of the contact batch is the customer of an order that has
\* a row in the order batch of the same run.
C15_ContactsOfResolvedOrders ==
    fs.contacts.exists =>
        \A c \in Range(fs.contacts.rows) :
            \E j \in 1..Len(fs.orders.rows) :
                fs.orders.rows[j].customer = c.Name

\* C16: no two rows of the contact batch have the same name, every row is
\* the first raw row (in input order) that carries its name, and no row has
\* a name of the contacts snapshot.
C16_ContactsDeduplicated ==
    fs.contacts.exists =>
        LET rows == fs.contacts.rows
        IN /\ \A j, k \in 1..Len(rows) : j # k => rows[j].Name # rows[k].Name
           /\ \A j, k \in 1..Len(rows) : j < k => rows[j].idx < rows[k].idx
           /\ \A j \in 1..Len(rows) :
                 /\ rows[j].Name \notin df_contacts
                 /\ input[rows[j].idx].bill = rows[j].Name
                 /\ \A m \in Range(df_in) :
                       input[m].bill = rows[j].Name => rows[j].idx <= m

\* a contact batch was written from rows of which two carry the same new
\* name and a third carries a name of the snapshot
C16_Witness ==
    /\ pc = "exit" /\ outcome = "done"
    /\ Len(fs.contacts.rows) = 1
    /\ \E j, k, m \in Range(df_in) :
          /\ j < k
          /\ input[j].bill = fs.contacts.rows[1].Name
          /\ input[k].bill = fs.contacts.rows[1].Name
          /\ input[m].bill \in df_contacts

\* The orders have been counted: the run is past the summary figures.
Counted_Done ==
    \/ pc \in {"emit_orders", "emit_contacts", "emit_corrections"}
    \/ Terminal

\* C17: when no order is ready for output after classification and
\* resolution (the figure 'Orders processed' is 0), the run ends in the
\* empty terminal state: 02_orders_upload.csv and 01_contacts_upload.csv are
\* not written and the summary holds the numbers of excluded, already
\* imported and unresolved orders.
C17_EmptyTerminalState ==
    (Counted_Done /\ counts.processed = 0) =>
        /\ pc = "exit" /\ outcome = "empty"
        /\ fs.orders = fs0.orders
        /\ fs.contacts = fs0.contacts
        /\ counts.excluded = Cardinality(excluded_orders)
        /\ counts.already = Cardinality(already_imported)
        /\ counts.skipped = Len(skipped_order_names)

\* The exit status of a failed run and of a run aborted by the operator.
FailureStatus == 1

\* C18: a run that ends with zero orders ready for output exits with a
\* status other than the status of a failed run or of an aborted run.
C18_EmptyExitStatus ==
    pc = "exit" =>
        /\ outcome \in {"aborted", "input_error", "crashed"} =>
              exit_code = FailureStatus
        /\ outcome = "empty" => exit_code # FailureStatus

\* C19: the order batch has one row per line left after the resolution, in
\* the same order; for every order of the batch exactly one row, the first
\* of the order's rows, carries the order reference, the customer, the
\* invoice party, the delivery party and the order date, and every other
\* row of the order has these five fields blank.
C19_HeaderOnFirstLine ==
    fs.orders.exists =>
        LET rows == fs.orders.rows
        IN /\ Len(rows) = Len(df)
           /\ \A k \in 1..Len(rows) :
                 /\ rows[k].idx = df[k].idx
                 /\ rows[k].qty = df[k].qty
                 /\ rows[k].product = df[k].sku
           /\ \A o \in Range(NamesOf(df)) \ {Blank} :
                 LET L == {k \in 1..Len(df) : df[k].Name = o}
                     f == CHOOSE k \in L : \A j \in L : k <= j
                 IN /\ rows[f].ref = o
                    /\ rows[f].customer = df[f].bill
                    /\ rows[f].invoice = "Shopify"
                    /\ rows[f].delivery = df[f].bill
                    /\ rows[f].date = CleanDate(df[f].paid)
                    /\ \A k \in 1..Len(rows) : rows[k].ref = o => k = f
                    /\ \A k \in L \ {f} :
                          /\ rows[k].ref = Blank
                          /\ rows[k].customer = Blank
                          /\ rows[k].invoice = Blank
                          /\ rows[k].delivery = Blank
                          /\ rows[k].date = Blank

\* a batch of three rows: the lines of one order with a line of another
\* order between them
C19_Witness ==
    /\ pc = "exit" /\ outcome = "done"
    /\ Len(fs.orders.rows) = 3
    /\ df[1].Name = df[3].Name /\ df[2].Name # df[1].Name
    /\ fs.orders.rows[1].ref # Blank
    /\ fs.orders.rows[2].ref # Blank
    /\ fs.orders.rows[3].ref = Blank
    /\ fs.orders.rows[1].date = "2025-01-02 10:00:00"

\* C20: every normalized line carries the order key, the customer name and
\* the paid timestamp that forward-filling the raw input sequence gives its
\* row, whatever rows the order filter and the already-imported check
\* removed before.
C20_ForwardFillFromRawInput ==
    \A k \in 1..Len(df) :
        LET raw == Normalized(AllRows)[df[k].idx]
        IN /\ df[k].Name = raw.Name
           /\ df[k].bill = raw.bill
           /\ df[k].paid = raw.paid

\* C21: no raw row of an order that was excluded or found already imported,
\* the continuation rows of the order included, has a row in the order
\* batch or is among the rows written back to orders_export.csv.
C21_FilteredRowsNotEmitted ==
    \A k \in 1..Len(input) :
        RowOrder(k) \in excluded_orders \cup already_imported =>
            /\ fs.orders.exists =>
                  \A j \in 1..Len(fs.orders.rows) : fs.orders.rows[j].idx # k
            /\ fs.export # fs0.export =>
                  k \notin Range(FailedOrderRecords(df_in, skipped_order_names))

\* C22: no normalized line has an empty order key; a run whose input begins
\* with a row that has a blank order identifier does not get past the
\* normalization: it ends there as an input error.
C22_LeadingContinuationRejected ==
    /\ \A k \in 1..Len(df) : df[k].Name # Blank
    /\ (Len(input) > 0 /\ input[1].name = Blank) =>
          /\ pc \in {"filter", "imported", "normalize", "exit"}
          /\ pc = "exit" => outcome \in {"input_error", "crashed"}

\* C23: failed_orders.txt as written by the run has exactly one section for
\* every order that has a line still marked __SKIP__ and no section for any
\* other order, and the items of a section are exactly the still-unresolved
\* lines of its order, each with its description and its quantity.
C23_DiagnosticSections ==
    fs.failed # fs0.failed =>
        LET sections == fs.failed.rows
            unresolved == {still_skipped[j].Name : j \in 1..Len(still_skipped)}
        IN /\ fs.failed.exists
           /\ {sections[k].order : k \in 1..Len(sections)} = unresolved
           /\ \A j, k \in 1..Len(sections) :
                 j # k => sections[j].order # sections[k].order
           /\ \A k \in 1..Len(sections) :
                 LET lines == SelectSeq(still_skipped,
                                  LAMBDA l : l.Name = sections[k].order)
                 IN /\ Len(sections[k].items) = Len(lines)
                    /\ \A m \in 1..Len(lines) :
                          /\ sections[k].items[m].product = lines[m].desc
                          /\ sections[k].items[m].qty = lines[m].qty

\* failed_orders.txt holds a section with two unresolved lines and a
\* section of another order
C23_Witness ==
    /\ fs.failed.exists
    /\ Len(fs.failed.rows) = 2
    /\ \A k \in 1..2 : fs.failed.rows[k].order # Blank
    /\ \E k \in 1..2 : Len(fs.failed.rows[k].items) = 2

\* C24: the artifacts of a run are written all or none: a run that did not
\* reach the completed or the empty terminal state has written no file and
\* left orders_export.csv as it was; in particular orders_export.csv is
\* never left rewritten with the unresolved rows while the lines of the
\* resolved orders are in no order batch.
C24_ArtifactsAllOrNone ==
    pc = "exit" =>
        /\ (outcome \notin {"done", "empty"}) => fs = fs0
        /\ (/\ fs.export # fs0.export
            /\ Len(RemoveFailed(df, skipped_order_names)) > 0)
               => fs.orders.exists

\* C25: a run whose orders_export.csv is missing, or cannot be read, ends as
\* an input error with nothing classified, no prompt issued and no file
\* written; a run without the file never gets past the reading.
C25_InputErrorIsFatal ==
    /\ outcome = "input_error" =>
          /\ pc = "exit" /\ exit_code = FailureStatus
          /\ fs = fs0
          /\ input = <<>> /\ df_in = <<>> /\ df = <<>>
          /\ excluded_orders = {} /\ already_imported = {}
          /\ lookups = <<>> /\ sku_corrections = <<>> /\ sku_cache = <<>>
    /\ (~fs0.export.exists /\ pc \notin {"load", "read"}) =>
          outcome = "input_error"

\* the file is there with an order in it but cannot be read
C25_Witness ==
    /\ pc = "exit" /\ outcome = "input_error"
    /\ fs.export.exists /\ Len(fs.export.rows) > 0
    /\ odoo.orders # {}

\* page_start = current_page * page_size   (line 151)
page_start == current_page * page_size

\* C26: at a selection prompt every number the prompt accepts designates an
\* entry of the page that is displayed.
C26_IndexWithinDisplayedPage ==
    pc = "select" =>
        \A number \in Digits :
            AcceptsIndex(number - 1) =>
                page_start <= number - 1 /\ number - 1 < page_end

\* ceil(total_results / page_size)
total_pages == (Len(results) + page_size - 1) \div page_size

\* C27: at every selection prompt the result list is not empty, the page
\* index is in 0 .. total_pages - 1 and the displayed page holds an entry;
\* a command that stays at the selection prompt keeps the result list and
\* moves the page by one at most, not at all forward from the last page or
\* back from the first page.
C27_PageStaysInRange ==
    /\ [](pc = "select" =>
             /\ results # <<>>
             /\ 0 <= current_page /\ current_page <= total_pages - 1
             /\ current_page * page_size < Len(results))
    /\ [][(pc = "select" /\ pc' = "select") =>
             /\ results' = results
             /\ current_page' \in {current_page - 1, current_page,
                                   current_page + 1}
             /\ current_page = total_pages - 1 => current_page' <= current_page
             /\ current_page = 0 => current_page' >= current_page]_vars

\* the second and last page of a list of 12 results is displayed
C27_Witness ==
    /\ pc = "select"
    /\ Len(results) > page_size
    /\ current_page = 1
    /\ current_page = total_pages - 1

\* C28: every step taken at a prompt of interactive_sku_lookup either leads
\* to a prompt of the same lookup again, with the cache, the Correction log
\* and the order lines unchanged, or returns with a reference of the
\* current result list (a selection), or returns with none and the skip
\* marker cached (a skip), or ends the run as aborted.
C28_LookupFrame ==
    [][(pc = "search" \/ pc = "select") =>
          \/ /\ pc' \in {"search", "select"}
             /\ lk' = lk
             /\ sku_cache' = sku_cache
             /\ sku_corrections' = sku_corrections
             /\ df' = df
          \/ /\ pc = "select" /\ pc' \in {"sweep", "second"}
             /\ sku_cache'[lk.name] \in Range(results)
             /\ \E k \in 1..Len(df) : df'[k].sku = sku_cache'[lk.name]
          \/ /\ pc' \in {"sweep", "second"}
             /\ sku_cache'[lk.name] = None
          \/ /\ pc' = "exit" /\ outcome' = "aborted"
      ]_vars

\* a lookup of the second-chance pass after a search and a page forward:
\* the description is still cached as skipped
C28_Witness ==
    /\ pc = "select" /\ lk.caller = "second"
    /\ current_page = 1
    /\ sku_cache[lk.name] = None
    /\ sku_corrections # <<>>

\* C29: every Correction record carries, as the original reference, the
\* reference a line of its order with its description had in the input, or
\* the 'missing' marker exactly when that reference was empty.
C29_OriginalReferenceRecorded ==
    \A r \in Range(sku_corrections) :
        \E k \in 1..Len(df_in) :
            /\ OrigLine(k).Name = r.Order
            /\ OrigLine(k).desc = r.Product
            /\ r.ShopifySku = IF OrigLine(k).sku = Blank THEN MISSING
                              ELSE OrigLine(k).sku

\* C30: in the live-sync path a step that handles a line whose description
\* is cached, with the skip marker as with a reference, appends exactly one
\* Correction record, for that line; with the skip marker cached the line
\* is marked __SKIP__.
C30_SyncCacheHitAudited ==
    [][(/\ pc = "sync_sweep" /\ i <= Len(df) /\ i' = i + 1
        /\ df[i].desc # Blank /\ NeedsFix(df[i].sku)
        /\ df[i].desc \in DOMAIN sku_cache) =>
          /\ sku_cache[df[i].desc] = None => df'[i].sku = SKIP
          /\ Len(sku_corrections') = Len(sku_corrections) + 1
          /\ sku_corrections'[Len(sku_corrections')].Order = df[i].Name
          /\ sku_corrections'[Len(sku_corrections')].Product = df[i].desc
      ]_vars

\* C31: every row of the emitted order batch has a product reference that
\* is not empty, is not the skip marker, and is either in the catalog
\* snapshot or a reference the operator selected from search results in
\* this run.
SelectedReferences ==
    {sku_cache[d] : d \in {x \in DOMAIN sku_cache : sku_cache[x] # None}}

C31_BatchReferencesResolved ==
    fs.orders # fs0.orders =>
        \A r \in Range(fs.orders.rows) :
            /\ r.product # Blank
            /\ r.product # SKIP
            /\ r.product \in odoo_skus \cup SelectedReferences

\* C32: at the end of a run no order of the order batch has a Correction
\* record marked '(skipped)' in the Correction log.
C32_LogAgreesWithBatch ==
    outcome = "done" =>
        \A r \in Range(fs.orders.rows) :
            r.ref # Blank =>
                ~\E c \in Range(sku_corrections) :
                    c.Order = r.ref /\ c.Corrected = SKIPPED

\* C33: the figure 'Total in file' of the summary is the number of distinct
\* orders of the input, and is the sum of the processed, already imported,
\* excluded and unresolved order counts.
C33_TotalInFile ==
    (Counted_Done /\ counts # NoCounts) =>
        /\ counts.total_in_file = Cardinality(InputOrders)
        /\ counts.total_in_file = counts.processed + counts.already
                                  + counts.excluded + counts.skipped

\* C34: the final summary of a run announces skipped orders saved to
\* orders_export.csv only if that run deferred at least one order, in a
\* first run and in a run that follows another.
C34_AnnouncesOwnSkips ==
    (outcome = "done" /\ counts.announces_skipped) =>
        skipped_order_names # <<>>

\* The rows of the lines of order o in df.
LinesOfOrder(o) == {df[k].idx : k \in {j \in 1..Len(df) : df[j].Name = o}}

\* C35: grouping the emitted order batch the way import_orders does gives,
\* for every order of the batch, one group that holds exactly the lines of
\* that order, whatever the order of the rows of the input.
C35_GroupingRoundTrip ==
    pc = "imported" =>
        \A o \in Range(NamesOf(df)) :
            \E g \in Range(groups) :
                /\ g.order = o
                /\ {l.idx : l \in Range(g.lines)} = LinesOfOrder(o)

RECURSIVE QuantityNeeded(_, _)
QuantityNeeded(lines, sku) ==
    IF lines = <<>> THEN 0
    ELSE (IF lines[1].product_sku = sku THEN lines[1].quantity ELSE 0)
         + QuantityNeeded(Tail(lines), sku)

\* C37: a sale order the importer created is confirmed only if auto-confirm
\* is enabled and every line item of the order in the batch has a product
\* that exists in the target system and whose available stock (on hand minus
\* reserved) covers the total quantity the order needs of it; without
\* auto-confirm every order stays a quotation.
C37_ConfirmedOnlyIfAllAvailable ==
    \A k \in 1..Len(sale_orders) :
        sale_orders[k].state = "confirmed" =>
            /\ auto_confirm
            /\ \A g \in Range(groups) :
                  g.order = sale_orders[k].name =>
                      \A l \in Range(g.lines) :
                          /\ get_product_by_sku(l.product_sku) # None
                          /\ get_product_available_qty(l.product_sku, FALSE)
                                 >= QuantityNeeded(g.lines, l.product_sku)

\* The menu entry is over: the import was started or the menu is back.
MenuOver == pc = "menu_done" \/ menu.launched # "none"

\* C38: when the preflight script exited successfully, the import is
\* launched if the choice was to review or to auto-skip (or no anomaly was
\* found), with SHOPIFY_IMPORT_AUTO_SKIP=1 exactly when the choice was to
\* auto-skip, and no import is launched if the choice was to cancel.
C38_MenuHandshake ==
    (MenuOver /\ menu.returncode = 0) =>
        /\ menu.chosen \in {"run_interactive", "run_skip_all"} =>
              /\ menu.launched # "none"
              /\ auto_skip <=> menu.chosen = "run_skip_all"
        /\ menu.chosen = "cancel" => menu.launched = "none"

\* C39: the live-sync filter keeps an order exactly when the exclusion
\* filter of the import engine does not exclude it: after the filter step
\* of sync_shopify_live an order of the fetched rows has lines in
\* df_filtered if and only if the exclusion loop gives its first row no
\* exclusion reason.
C39_SyncFilterAgrees ==
    [][(pc = "sync_filter" /\ pc' # "sync_filter"
        /\ outcome' # "fetch_error") =>
          \A o \in InputOrders :
              (\E k \in 1..Len(df') : df'[k].Name = o)
                  <=> ExclusionReason(FirstRow(AllRows, o)) = "none"
      ]_vars

====
